---------------------------- MODULE Spec2Model ----------------------------
(***************************************************************************)
(* State-machine model of the offline-first sync engine: SyncEngine        *)
(* (sync-engine.ts), ChangeTracker (change-tracker.ts), the helpers of     *)
(* utils.ts, the LastWriteWinsResolver, the MemoryStoreAdapter and the     *)
(* transport contract.  Every asynchronous method is a task whose pc is    *)
(* the await it is suspended at; one action is the code between two        *)
(* awaits.                                                                 *)
(***************************************************************************)
EXTENDS Integers, Sequences, FiniteSets, Bags, TLC

(***************************************************************************)
(* Bounds of the model.                                                    *)
(***************************************************************************)
MaxClock == 2        \* wall clock values are 1..MaxClock
MaxQueue == 2        \* local CRUD is not started when the queue is this long
MaxTasks == 2        \* concurrently suspended engine tasks
MaxRemote == 1       \* changes per pull result / real-time batch
BatchSize == 1       \* config.batchSize
MaxBatch == 2        \* config.batchSize and changes per answer in SpecBatch
RetryAttempts == 2   \* config.retryAttempts
MaxTimers == 1       \* live timers of one kind, pending post-online timeouts
MaxSubscriptions == 2  \* callbacks registered at the transport
MaxCalls == 3        \* calls the application makes in one behaviour of Spec
MaxCallsCrud == 4    \* ... of SpecCrud
MaxCallsPush == 2    \* ... of SpecPush
MaxCallsPull == 2    \* ... of SpecPull
MaxCallsLive == 2    \* ... of SpecLive
MaxCallsSync == 2    \* ... of SpecSync
MaxCallsDebounce == 2  \* ... of SpecDebounce
MaxCallsProbe == 1     \* ... of SpecProbe
MaxTime == 4          \* last instant of SpecDebounce

LocalData == {"x"}
RemoteData == "r"
MaxTs == MaxClock + 1          \* largest version timestamp the model follows
Clock == 1..MaxClock

VARIABLES
  clock,               \* Date.now()
  documents,           \* MemoryStoreAdapter.documents : Map<DocumentId, Document>
  lastSyncTimestamp,   \* MemoryStoreAdapter.lastSyncTimestamp
  changes,             \* ChangeTracker.changes : Map<DocumentId, ChangeRecord>
  changeQueue,         \* ChangeTracker.changeQueue
  isStarted, isSyncing, isOnline,
  lastPullTimestamp, lastPushTimestamp,
  config,              \* what the engine was constructed with (see Configs)
  syncInterval,        \* the handle this.syncInterval is set
  onlineCheckInterval, \* the handle this.onlineCheckInterval is set
  intervals,           \* live setInterval timers: [sync |-> n, probe |-> n]
  timeoutId,           \* debounce: a debounced push is scheduled
  onlineTimeouts,      \* pending setTimeout(sync, 1000) of updateOnlineStatus
  subscriptions,       \* callbacks registered through transport.onRemoteChange
  isConnected,         \* the transport's reachability (environment)
  tasks,               \* bag of the suspended async invocations
  calls,               \* number of calls the application may still make
  last,                \* what the last step called, and the events it emitted
  listeners,           \* SyncEventEmitter.listeners : Map<event, Set<Function>>
  handles,             \* the unsubscribe closures that on() has returned
  other                \* a second ChangeTracker, filled by importState

vars == <<clock, documents, lastSyncTimestamp, changes, changeQueue,
          isStarted, isSyncing, isOnline, lastPullTimestamp, lastPushTimestamp,
          config, syncInterval, onlineCheckInterval, intervals, timeoutId,
          onlineTimeouts, subscriptions, isConnected, tasks, calls, last,
          listeners, handles, other>>

(***************************************************************************)
(* What the engine is constructed with: config.syncInterval > 0 or not,    *)
(* and the injected collaborators.  A MemoryStoreAdapter never rejects;    *)
(* the StoreAdapter contract allows rejection.  The shipped transports     *)
(* report failure as success=false ("reporting"; "reliable" is the         *)
(* MockHttpTransportAdapter with failureRate 0, which fails exactly when   *)
(* it is disconnected); the TransportAdapter contract allows a rejected    *)
(* promise.  "remote" says whether the server holds changes of other       *)
(* clients (pull results with changes, push results with conflicts),       *)
(* "answers" how many changes or conflicts one of its answers may hold,    *)
(* "ids" the document ids in use, and batchSize is config.batchSize.       *)
(***************************************************************************)
Configs == [periodic : BOOLEAN, store : {"memory", "rejecting"},
            transport : {"reliable", "reporting", "throwing"},
            resolver : {"lww", "failing"}, remote : BOOLEAN,
            batchSize : 1..MaxBatch, answers : 1..MaxBatch, ids : SUBSET {"a", "b"}]

Ids == config.ids

StoreOk == IF config.store = "rejecting" THEN BOOLEAN ELSE {TRUE}
ResolverOk == IF config.resolver = "failing" THEN BOOLEAN ELSE {TRUE}
Outcomes == CASE config.transport = "throwing" -> {"throw", "fail", "ok"}
              [] config.transport = "reporting" -> {"fail", "ok"}
              [] OTHER -> {IF isConnected THEN "ok" ELSE "fail"}
ProbeThrows == IF config.transport = "throwing" THEN BOOLEAN ELSE {FALSE}

(***************************************************************************)
(* utils.ts                                                                *)
(***************************************************************************)
now == clock

createVersion(id, timestamp) == [id |-> id, timestamp |-> timestamp]

\* createDocument(data, id): no "deleted" property is set
createDocument(data, id) ==
  [id |-> id, data |-> data, version |-> createVersion(id, now), deleted |-> "undefined"]

\* a clone that takes the timestamp it is given
cloneDocument_verbatim(document, newData, timestamp) ==
  [document EXCEPT !.data = newData, !.version.timestamp = timestamp]

cloneDocument(document, newData, timestamp) ==
  LET finalTimestamp == IF timestamp <= document.version.timestamp
                          THEN document.version.timestamp + 1
                          ELSE timestamp
  IN  [document EXCEPT !.data = newData, !.version.timestamp = finalTimestamp]

(***************************************************************************)
(* MemoryStoreAdapter: a Map is a function on the set of its keys.         *)
(***************************************************************************)
NoDoc == [id |-> "none", data |-> "none",
          version |-> [id |-> "none", timestamp |-> 0], deleted |-> "undefined"]

MapSet(m, k, v) == [x \in (DOMAIN m) \cup {k} |-> IF x = k THEN v ELSE m[x]]
MapDelete(m, k) == [x \in (DOMAIN m) \ {k} |-> m[x]]

StoreGet(docs, id) == IF id \in DOMAIN docs THEN docs[id] ELSE NoDoc
StorePut(docs, document) == MapSet(docs, document.id, document)
StoreDelete(docs, id) == MapDelete(docs, id)

\* a store that drops the write
StoreSetLastSyncTimestamp_dropped(timestamp) == 0

\* setLastSyncTimestamp: what getLastSyncTimestamp returns afterwards
StoreSetLastSyncTimestamp(timestamp) == timestamp

(***************************************************************************)
(* ChangeTracker.  A tracker value is [changes, changeQueue].              *)
(***************************************************************************)
addChange(tr, change) ==
  [changes |-> MapSet(tr.changes, change.id, change),
   changeQueue |-> Append(tr.changeQueue, change)]

recordCreate(tr, document) ==
  addChange(tr, [id |-> document.id, operation |-> "create", data |-> document.data,
                 version |-> document.version, localTimestamp |-> now])

\* an update recorded as a create
recordUpdate_asCreate(tr, document) ==
  addChange(tr, [id |-> document.id, operation |-> "create", data |-> document.data,
                 version |-> document.version, localTimestamp |-> now])

recordUpdate(tr, document) ==
  addChange(tr, [id |-> document.id, operation |-> "update", data |-> document.data,
                 version |-> document.version, localTimestamp |-> now])

recordDelete(tr, id, version) ==
  addChange(tr, [id |-> id, operation |-> "delete", data |-> "null",
                 version |-> version, localTimestamp |-> now])

\* a clear that also drops the changes made at the timestamp itself
clearChangesBefore_strict(tr, timestamp) ==
  LET keep(change) == change.localTimestamp > timestamp
  IN  [changes |-> [id \in {i \in DOMAIN tr.changes : keep(tr.changes[i])} |-> tr.changes[id]],
       changeQueue |-> SelectSeq(tr.changeQueue, keep)]

clearChangesBefore(tr, timestamp) ==
  LET keep(change) == change.localTimestamp >= timestamp
  IN  [changes |-> [id \in {i \in DOMAIN tr.changes : keep(tr.changes[i])} |-> tr.changes[id]],
       changeQueue |-> SelectSeq(tr.changeQueue, keep)]

hasPendingChanges(tr) == Len(tr.changeQueue) > 0
getPendingChanges(tr) == tr.changeQueue
getPendingChangeCount(tr) == Len(tr.changeQueue)

Tracker == [changes |-> changes, changeQueue |-> changeQueue]

\* no second tracker has been constructed
NoTracker == [constructed |-> FALSE, changes |-> <<>>, changeQueue |-> <<>>,
              sameArray |-> FALSE]

(***************************************************************************)
(* Events and the record of the last step.                                 *)
(***************************************************************************)
Ev(name, type, count, id) == [name |-> name, type |-> type, count |-> count, id |-> id]

\* emitStateChange(): the snapshot carries isSyncing and pendingChanges
StateChanged(syncing, queue) ==
  Ev("state:changed", IF syncing THEN "syncing" ELSE "idle", Len(queue), "")

\* call: the engine method the step invokes; transport: the transport method it
\* calls; emitted: the events it emits; settled: how the promise of the async
\* method that returns in the step settles; result: what the step has got from
\* the retried transport call ("ok", or "failure": thrown on the last try or
\* success=false)
Step(call, transport, emitted) ==
  [call |-> call, transport |-> transport, emitted |-> emitted, settled |-> "none",
   result |-> "none"]

Return(call, emitted) ==
  [call |-> call, transport |-> "none", emitted |-> emitted, settled |-> "resolved",
   result |-> "none"]

Reject(call) ==
  [call |-> call, transport |-> "none", emitted |-> <<>>, settled |-> "rejected",
   result |-> "none"]

\* the step of task t that has got a transport result
Got(t, outcome, step) ==
  [step EXCEPT !.result = IF t.pc = "transport" THEN outcome ELSE "none"]

(***************************************************************************)
(* Tasks: one record per suspended async invocation.                       *)
(***************************************************************************)
NoEntry == [pull |-> 0, push |-> 0, store |-> 0, queue |-> <<>>]

Task0 == [kind |-> "", pc |-> "", sync |-> FALSE, attempt |-> 0,
          batch |-> <<>>, todo |-> <<>>, conflicts |-> <<>>,
          timestamp |-> 0, doc |-> NoDoc, prev |-> NoDoc.version,
          wasOnline |-> FALSE, entry |-> NoEntry]

Live == BagToSet(tasks)
HasFree == BagCardinality(tasks) < MaxTasks
Crud == {"create", "put", "update", "delete"}
Count(kinds) ==
  LET S == {t \in Live : t.kind \in kinds}
      sum[T \in SUBSET S] ==
        IF T = {} THEN 0
        ELSE LET t == CHOOSE x \in T : TRUE IN CopiesIn(t, tasks) + sum[T \ {t}]
  IN  sum[S]
InFlightCrud == Count(Crud)

Spawn(t) == HasFree /\ tasks' = tasks (+) SetToBag({t})
Finish(t) == tasks' = tasks (-) SetToBag({t})
Goto(t, u) == tasks' = (tasks (-) SetToBag({t})) (+) SetToBag({u})

engineVars == <<isStarted, isSyncing, isOnline, lastPullTimestamp, lastPushTimestamp>>
emitterVars == <<listeners, handles>>
timerVars == <<config, emitterVars, other, syncInterval, onlineCheckInterval, intervals,
               onlineTimeouts, subscriptions>>
trackerVars == <<changes, changeQueue>>
storeVars == <<documents, lastSyncTimestamp>>

\* the application calls the engine
Called == calls > 0 /\ calls' = calls - 1

SetTracker(tr) == /\ changes' = tr.changes
                  /\ changeQueue' = tr.changeQueue

(***************************************************************************)
(* The wall clock may stand still, advance or jump backwards.              *)
(***************************************************************************)
ClockChange ==
  /\ \E c \in Clock \ {clock} : clock' = c
  /\ last' = Step("none", "none", <<>>)
  /\ UNCHANGED <<storeVars, trackerVars, engineVars, timerVars, timeoutId,
                 isConnected, tasks>>
  /\ UNCHANGED calls

(***************************************************************************)
(* Local CRUD (SyncEngine.create / put / update / delete).                 *)
(***************************************************************************)
CrudRoom == HasFree /\ Len(changeQueue) + InFlightCrud < MaxQueue

\* create(data, id): createDocument, store.put, then suspended at the await
CreateCall ==
  /\ CrudRoom
  /\ \E id \in Ids, data \in LocalData, ok \in StoreOk :
       LET document == createDocument(data, id) IN
       IF ok
         THEN /\ documents' = StorePut(documents, document)
              /\ Spawn([Task0 EXCEPT !.kind = "create", !.pc = "put", !.doc = document])
              /\ last' = Step("create", "none", <<>>)
         ELSE /\ UNCHANGED <<documents, tasks>>
              /\ last' = Reject("create")
  /\ UNCHANGED <<clock, lastSyncTimestamp, trackerVars, engineVars, timerVars,
                 timeoutId, isConnected>>
  /\ Called

\* after await store.put: recordCreate, emit, debouncePush
CreateDone(t) ==
  /\ t.kind = "create"
  /\ SetTracker(recordCreate(Tracker, t.doc))
  /\ timeoutId' = TRUE
  /\ Finish(t)
  /\ last' = Return("none", <<Ev("document:created", "", 0, t.doc.id)>>)
  /\ UNCHANGED <<clock, storeVars, engineVars, timerVars, isConnected>>
  /\ UNCHANGED calls

PutDocs == [id : Ids, data : LocalData, version : [id : Ids, timestamp : Clock],
            deleted : {"undefined"}]

\* put(document): store.put, then suspended
PutCall ==
  /\ CrudRoom
  /\ \E document \in PutDocs, ok \in StoreOk :
       /\ document.version.id = document.id
       /\ IF ok
            THEN /\ documents' = StorePut(documents, document)
                 /\ Spawn([Task0 EXCEPT !.kind = "put", !.pc = "put", !.doc = document])
                 /\ last' = Step("put", "none", <<>>)
            ELSE /\ UNCHANGED <<documents, tasks>>
                 /\ last' = Reject("put")
  /\ UNCHANGED <<clock, lastSyncTimestamp, trackerVars, engineVars, timerVars,
                 timeoutId, isConnected>>
  /\ Called

PutDone(t) ==
  /\ t.kind = "put"
  /\ SetTracker(recordUpdate(Tracker, t.doc))
  /\ timeoutId' = TRUE
  /\ Finish(t)
  /\ last' = Return("none", <<Ev("document:updated", "", 0, t.doc.id)>>)
  /\ UNCHANGED <<clock, storeVars, engineVars, timerVars, isConnected>>
  /\ UNCHANGED calls

\* update(id, data): store.get, then suspended.  doc.id carries the argument.
UpdateCall ==
  /\ CrudRoom
  /\ \E id \in Ids, data \in LocalData, ok \in StoreOk :
       /\ StoreGet(documents, id).version.timestamp < MaxTs
       /\ IF ok
            THEN /\ Spawn([Task0 EXCEPT !.kind = "update", !.pc = "get",
                            !.doc = [StoreGet(documents, id) EXCEPT !.data = data],
                            !.prev = StoreGet(documents, id).version])
                 /\ last' = Step("update", "none", <<>>)
            ELSE /\ UNCHANGED tasks
                 /\ last' = Reject("update")
  /\ UNCHANGED <<clock, storeVars, trackerVars, engineVars, timerVars,
                 timeoutId, isConnected>>
  /\ Called

\* after await store.get: return null, or cloneDocument and store.put
UpdatePut(t) ==
  /\ t.kind = "update" /\ t.pc = "get"
  /\ IF t.doc.id = NoDoc.id
       THEN /\ Finish(t)
            /\ UNCHANGED documents
            /\ last' = Return("none", <<>>)
       ELSE \E ok \in StoreOk :
              LET existing == [t.doc EXCEPT !.version = t.prev]
                  updated == cloneDocument(existing, t.doc.data, now)
              IN  IF ok
                    THEN /\ documents' = StorePut(documents, updated)
                         /\ Goto(t, [t EXCEPT !.pc = "put", !.doc = updated])
                         /\ last' = Step("none", "none", <<>>)
                    ELSE /\ Finish(t)
                         /\ UNCHANGED documents
                         /\ last' = Reject("none")
  /\ UNCHANGED <<clock, lastSyncTimestamp, trackerVars, engineVars, timerVars,
                 timeoutId, isConnected>>
  /\ UNCHANGED calls

\* after await store.put: recordUpdate, emit, debouncePush
UpdateDone(t) ==
  /\ t.kind = "update" /\ t.pc = "put"
  /\ SetTracker(recordUpdate(Tracker, t.doc))
  /\ timeoutId' = TRUE
  /\ Finish(t)
  /\ last' = Return("none", <<Ev("document:updated", "", 0, t.doc.id)>>)
  /\ UNCHANGED <<clock, storeVars, engineVars, timerVars, isConnected>>
  /\ UNCHANGED calls

\* delete(id): store.get, then suspended
DeleteCall ==
  /\ CrudRoom
  /\ \E id \in Ids, ok \in StoreOk :
       IF ok
         THEN /\ Spawn([Task0 EXCEPT !.kind = "delete", !.pc = "get",
                                     !.doc = StoreGet(documents, id),
                                     !.prev = StoreGet(documents, id).version])
              /\ last' = Step("delete", "none", <<>>)
         ELSE /\ UNCHANGED tasks
              /\ last' = Reject("delete")
  /\ UNCHANGED <<clock, storeVars, trackerVars, engineVars, timerVars,
                 timeoutId, isConnected>>
  /\ Called

\* after await store.get: return false, or store.delete
DeleteStore(t) ==
  /\ t.kind = "delete" /\ t.pc = "get"
  /\ IF t.doc.id = NoDoc.id
       THEN /\ Finish(t)
            /\ UNCHANGED documents
            /\ last' = Return("none", <<>>)
       ELSE \E ok \in StoreOk :
              IF ok
                THEN /\ documents' = StoreDelete(documents, t.doc.id)
                     /\ Goto(t, [t EXCEPT !.pc = "deleted"])
                     /\ last' = Step("none", "none", <<>>)
                ELSE /\ Finish(t)
                     /\ UNCHANGED documents
                     /\ last' = Reject("none")
  /\ UNCHANGED <<clock, lastSyncTimestamp, trackerVars, engineVars, timerVars,
                 timeoutId, isConnected>>
  /\ UNCHANGED calls

\* after await store.delete: recordDelete(id, existing.version), emit, debouncePush
DeleteDone(t) ==
  /\ t.kind = "delete" /\ t.pc = "deleted"
  /\ SetTracker(recordDelete(Tracker, t.doc.id, t.prev))
  /\ timeoutId' = TRUE
  /\ Finish(t)
  /\ last' = Return("none", <<Ev("document:deleted", "", 0, t.doc.id)>>)
  /\ UNCHANGED <<clock, storeVars, engineVars, timerVars, isConnected>>
  /\ UNCHANGED calls

(***************************************************************************)
(* The environment: transport reachability, transport results.             *)
(***************************************************************************)
ConnChange ==
  /\ isConnected' = ~isConnected
  /\ last' = Step("none", "none", <<>>)
  /\ UNCHANGED <<clock, storeVars, trackerVars, engineVars, timerVars, timeoutId, tasks>>
  /\ UNCHANGED calls

\* time passes
ClockAdvance == ClockChange /\ clock' > clock

\* the transport becomes reachable
Reconnect == ~isConnected /\ ConnChange

RemoteChanges ==
  UNION {[id : {id}, operation : {"update"}, data : {RemoteData},
          version : [id : {id}, timestamp : Clock], localTimestamp : {1}]
         \cup
         [id : {id}, operation : {"delete"}, data : {"null"},
          version : [id : {id}, timestamp : {1}], localTimestamp : {1}] : id \in Ids}

\* remote changes may add conflict resolutions to the queue
RemoteRoom == Len(changeQueue) <= MaxQueue

RemoteBatches == IF config.remote THEN UNION {[1..n -> RemoteChanges] : n \in 0..config.answers}
                                  ELSE {<<>>}

Min(a, b) == IF a <= b THEN a ELSE b

\* Math.max(...changes.map(c => c.localTimestamp)), changes non-empty
MaxLocalTimestamp(cs) ==
  CHOOSE m \in {cs[i].localTimestamp : i \in DOMAIN cs} :
    \A i \in DOMAIN cs : cs[i].localTimestamp <= m

\* a comparison that finds no id greater than another
IdRank_flat(id) == 0

\* the order of the ids under the string comparison of remote.id > local.id
IdRank(id) == CASE id = "a" -> 1 [] id = "b" -> 2 [] OTHER -> 0

(***************************************************************************)
(* LastWriteWinsResolver.resolve                                           *)
(***************************************************************************)
\* a resolver that always takes the remote side
LastWriteWins_remote(conflict) ==
  [resolvedData |-> conflict.remoteData, resolvedVersion |-> conflict.remoteVersion]

LastWriteWins(conflict) ==
  LET useRemote == conflict.remoteVersion.timestamp > conflict.localVersion.timestamp
      useRemoteOnTie ==
        /\ conflict.remoteVersion.timestamp = conflict.localVersion.timestamp
        /\ IdRank(conflict.remoteVersion.id) > IdRank(conflict.localVersion.id)
  IN  IF useRemote \/ useRemoteOnTie
        THEN [resolvedData |-> conflict.remoteData, resolvedVersion |-> conflict.remoteVersion]
        ELSE [resolvedData |-> conflict.localData, resolvedVersion |-> conflict.localVersion]

(***************************************************************************)
(* pull / push / sync entry.  "old" is the task that makes the call, or    *)
(* Task0 for a call from outside; "pre" are the events the same step has   *)
(* already emitted.  These fragments set isSyncing, tasks and last.        *)
(***************************************************************************)
Replace(old, new) == IF old = Task0 THEN Spawn(new) ELSE Goto(old, new)
Drop(old) == IF old = Task0 THEN UNCHANGED tasks ELSE Finish(old)

Entry == [pull |-> lastPullTimestamp, push |-> lastPushTimestamp,
          store |-> lastSyncTimestamp, queue |-> changeQueue]

\* a guard that looks at isOnline only
PullGuard_offlineOnly == ~isOnline

\* if (this.isSyncing || !this.isOnline) return;
PullGuard == isSyncing \/ ~isOnline

\* a guard that looks at isSyncing only
PushGuard_syncingOnly == isSyncing

PushGuard == isSyncing \/ ~isOnline

SyncGuard == isSyncing \/ ~isOnline

TryPull(old, viaSync, call, pre) ==
  IF PullGuard
    THEN /\ Drop(old)
         /\ last' = Return(call, pre)
         /\ UNCHANGED isSyncing
    ELSE /\ isSyncing' = TRUE
         /\ Replace(old, [Task0 EXCEPT !.kind = "pull", !.pc = "transport",
                                       !.sync = viaSync, !.attempt = 1, !.entry = Entry])
         /\ last' = Step(call, "pull", pre \o <<Ev("sync:started", "pull", 0, "")>>)

TryPush(old, viaSync, call, pre) ==
  IF PushGuard \/ ~hasPendingChanges(Tracker)
    THEN /\ Drop(old)
         /\ last' = Return(call, pre)
         /\ UNCHANGED isSyncing
    ELSE /\ isSyncing' = TRUE
         /\ Replace(old, [Task0 EXCEPT
               !.kind = "push", !.pc = "transport", !.sync = viaSync, !.attempt = 1,
               !.batch = SubSeq(getPendingChanges(Tracker), 1,
                                Min(config.batchSize, Len(changeQueue))),
               !.entry = Entry])
         /\ last' = Step(call, "push", pre \o <<Ev("sync:started", "push", 0, "")>>)

\* a sync() that pushes before it pulls
TrySync_pushFirst(old, call, pre) ==
  IF SyncGuard
    THEN /\ Drop(old)
         /\ last' = Return(call, pre)
         /\ UNCHANGED isSyncing
    ELSE TryPush(old, TRUE, call, pre)

TrySync(old, call, pre) ==
  IF SyncGuard
    THEN /\ Drop(old)
         /\ last' = Return(call, pre)
         /\ UNCHANGED isSyncing
    ELSE TryPull(old, TRUE, call, pre)

restOfSync == <<clock, storeVars, trackerVars, isStarted, isOnline, lastPullTimestamp,
                lastPushTimestamp, timerVars, timeoutId, isConnected>>

PullCall ==
  /\ TryPull(Task0, FALSE, "pull", <<>>)
  /\ UNCHANGED restOfSync
  /\ Called

PushCall ==
  /\ TryPush(Task0, FALSE, "push", <<>>)
  /\ UNCHANGED restOfSync
  /\ Called

SyncCall ==
  /\ TrySync(Task0, "sync", <<>>)
  /\ UNCHANGED restOfSync
  /\ Called

\* sync(): after await this.pull(), call this.push()
SyncPush(t) ==
  /\ t.kind = "sync" /\ t.pc = "gap"
  /\ TryPush(t, TRUE, "push", <<>>)
  /\ UNCHANGED restOfSync
  /\ UNCHANGED calls

(***************************************************************************)
(* retry(operation, maxAttempts, baseDelay)                                *)
(***************************************************************************)
\* the operation threw on try number attempt: rethrow, or wait and try again
retryRethrows(attempt) == attempt = RetryAttempts

\* after the backoff wait: the next try
Backoff(t) ==
  /\ t.kind \in {"pull", "push"} /\ t.pc = "backoff"
  /\ Goto(t, [t EXCEPT !.pc = "transport", !.attempt = t.attempt + 1])
  /\ last' = Step("none", t.kind, <<>>)
  /\ UNCHANGED <<clock, storeVars, trackerVars, engineVars, timerVars, timeoutId,
                 isConnected>>
  /\ UNCHANGED calls

(***************************************************************************)
(* pull(): the transport result, the catch and the finally block.          *)
(***************************************************************************)
\* the pull ends: a pull called by sync() resumes sync(), which awaits it
EndPull(t) == IF t.sync THEN Goto(t, [Task0 EXCEPT !.kind = "sync", !.pc = "gap"])
                        ELSE Finish(t)

\* a pull without its finally block
PullFailed_noFinally(t, pre) ==
  /\ UNCHANGED isSyncing
  /\ EndPull(t)
  /\ last' = Got(t, "failure", Return("none", pre \o <<Ev("sync:failed", "pull", 0, "")>>))

\* catch + finally of pull()
PullFailed(t, pre) ==
  /\ isSyncing' = FALSE
  /\ EndPull(t)
  /\ last' = Got(t, "failure", Return("none", pre \o <<Ev("sync:failed", "pull", 0, ""),
                                                       StateChanged(FALSE, changeQueue)>>))

PullResult(t) ==
  /\ t.kind = "pull" /\ t.pc = "transport"
  /\ \E outcome \in Outcomes :
       CASE outcome = "throw" ->
              IF retryRethrows(t.attempt)
                THEN PullFailed(t, <<>>)
                ELSE /\ Goto(t, [t EXCEPT !.pc = "backoff"])
                     /\ last' = Step("none", "none", <<>>)
                     /\ UNCHANGED isSyncing
         [] outcome = "fail" -> PullFailed(t, <<>>)
         [] outcome = "ok" ->
              /\ isConnected
              /\ \E cs \in RemoteBatches, ts \in {now} :
                   /\ Len(cs) > 0 => RemoteRoom
                   /\ Goto(t, [t EXCEPT !.pc = "apply", !.todo = cs, !.batch = cs,
                                        !.timestamp = ts])
              /\ last' = Got(t, "ok", Step("none", "none", <<>>))
              /\ UNCHANGED isSyncing
  /\ UNCHANGED <<clock, storeVars, trackerVars, isStarted, isOnline, lastPullTimestamp,
                 lastPushTimestamp, timerVars, timeoutId, isConnected>>
  /\ UNCHANGED calls

(***************************************************************************)
(* push(): what follows the conflict handling (lines 312-336).  tr is the  *)
(* tracker as the step has left it so far.  Sets the tracker, isSyncing,   *)
(* lastPushTimestamp, lastSyncTimestamp, tasks and last; old is the task   *)
(* as the bag holds it.                                                    *)
(***************************************************************************)
PushFinish(old, t, tr, pre) ==
  LET maxTimestamp == MaxLocalTimestamp(t.batch)
      cleared == clearChangesBefore(tr, maxTimestamp + 1)
      completed == <<Ev("sync:completed", "push", Len(t.batch), "")>>
      failed == <<Ev("sync:failed", "push", 0, "")>>
  IN  /\ SetTracker(cleared)
      /\ IF t.timestamp # 0
           THEN /\ lastPushTimestamp' = t.timestamp
                /\ \E ok \in StoreOk :
                     IF ok
                       THEN /\ lastSyncTimestamp' = StoreSetLastSyncTimestamp(t.timestamp)
                            /\ Goto(old, [t EXCEPT !.pc = "persist"])
                            /\ last' = Got(old, "ok", Step("none", "none", pre))
                            /\ UNCHANGED isSyncing
                       ELSE /\ isSyncing' = FALSE
                            /\ Finish(old)
                            /\ last' = Got(old, "ok", Return("none",
                                   pre \o failed \o <<StateChanged(FALSE, cleared.changeQueue)>>))
                            /\ UNCHANGED lastSyncTimestamp
           ELSE /\ isSyncing' = FALSE
                /\ Finish(old)
                /\ last' = Got(old, "ok", Return("none",
                       pre \o completed \o <<StateChanged(FALSE, cleared.changeQueue)>>))
                /\ UNCHANGED <<lastPushTimestamp, lastSyncTimestamp>>

\* a finally block that runs before SYNC_COMPLETED is emitted
PushPersisted_stateFirst(t) ==
  /\ t.kind = "push" /\ t.pc = "persist"
  /\ isSyncing' = FALSE
  /\ Finish(t)
  /\ last' = Return("none", <<StateChanged(FALSE, changeQueue),
                               Ev("sync:completed", "push", Len(t.batch), "")>>)
  /\ UNCHANGED <<clock, storeVars, trackerVars, isStarted, isOnline, lastPullTimestamp,
                 lastPushTimestamp, timerVars, timeoutId, isConnected>>
  /\ UNCHANGED calls

\* after await store.setLastSyncTimestamp: emit SYNC_COMPLETED, finally
PushPersisted(t) ==
  /\ t.kind = "push" /\ t.pc = "persist"
  /\ isSyncing' = FALSE
  /\ Finish(t)
  /\ last' = Return("none", <<Ev("sync:completed", "push", Len(t.batch), ""),
                               StateChanged(FALSE, changeQueue)>>)
  /\ UNCHANGED <<clock, storeVars, trackerVars, isStarted, isOnline, lastPullTimestamp,
                 lastPushTimestamp, timerVars, timeoutId, isConnected>>
  /\ UNCHANGED calls

\* a catch block that rethrows
PushFailed_rethrows(t, pre) ==
  /\ isSyncing' = FALSE
  /\ Finish(t)
  /\ last' = [Got(t, "failure", Return("none", pre \o <<Ev("sync:failed", "push", 0, ""),
                                                        StateChanged(FALSE, changeQueue)>>))
                EXCEPT !.settled = "rejected"]

\* catch + finally of push()
PushFailed(t, pre) ==
  /\ isSyncing' = FALSE
  /\ Finish(t)
  /\ last' = Got(t, "failure", Return("none", pre \o <<Ev("sync:failed", "push", 0, ""),
                                                       StateChanged(FALSE, changeQueue)>>))

ConflictFor(change, ts) ==
  [documentId |-> change.id, localVersion |-> change.version,
   remoteVersion |-> [id |-> change.id, timestamp |-> ts],
   localData |-> change.data, remoteData |-> RemoteData]

PushResult(t) ==
  /\ t.kind = "push" /\ t.pc = "transport"
  /\ \E outcome \in Outcomes :
       CASE outcome = "throw" ->
              /\ IF retryRethrows(t.attempt)
                   THEN PushFailed(t, <<>>)
                   ELSE /\ Goto(t, [t EXCEPT !.pc = "backoff"])
                        /\ last' = Step("none", "none", <<>>)
                        /\ UNCHANGED isSyncing
              /\ UNCHANGED <<trackerVars, lastPushTimestamp, lastSyncTimestamp>>
         [] outcome = "fail" ->
              /\ PushFailed(t, <<>>)
              /\ UNCHANGED <<trackerVars, lastPushTimestamp, lastSyncTimestamp>>
         [] outcome = "ok" ->
              /\ isConnected
              /\ \E k \in 0..(IF config.remote THEN Min(Len(t.batch), config.answers) ELSE 0),
                    rts \in Clock, ts \in {0, now} :
                   LET u == [t EXCEPT !.timestamp = ts,
                                      !.conflicts = IF k = 0 THEN <<>>
                                        ELSE [i \in 1..k |-> ConflictFor(t.batch[i], rts)]]
                   IN  IF k > 0
                         THEN /\ Goto(t, [u EXCEPT !.pc = "resolve"])
                              /\ last' = Got(t, "ok", Step("none", "none", <<>>))
                              /\ UNCHANGED <<trackerVars, isSyncing, lastPushTimestamp,
                                             lastSyncTimestamp>>
                         ELSE /\ rts = 1
                              /\ PushFinish(t, u, Tracker, <<>>)
  /\ UNCHANGED <<clock, documents, isStarted, isOnline, lastPullTimestamp,
                 timerVars, timeoutId, isConnected>>
  /\ UNCHANGED calls

(***************************************************************************)
(* resolveConflicts(conflicts): one iteration of the loop per conflict.    *)
(* A pull or a real-time batch comes here with the one conflict that       *)
(* handleCreateOrUpdateChange has found.                                   *)
(***************************************************************************)
\* a loop that leaves the remaining conflicts aside
AfterConflict_abandons(t, tr, pre) ==
  LET u == [t EXCEPT !.conflicts = <<>>, !.doc = NoDoc] IN
  IF u.conflicts # <<>>
    THEN /\ Goto(t, [u EXCEPT !.pc = "resolve"])
         /\ SetTracker(tr)
         /\ last' = Step("none", "none", pre)
         /\ UNCHANGED <<isSyncing, lastPushTimestamp, lastSyncTimestamp>>
    ELSE IF t.kind = "push"
      THEN PushFinish(t, u, tr, pre)
      ELSE /\ Goto(t, [u EXCEPT !.pc = "apply", !.todo = Tail(t.todo)])
           /\ SetTracker(tr)
           /\ last' = Step("none", "none", pre)
           /\ UNCHANGED <<isSyncing, lastPushTimestamp, lastSyncTimestamp>>

\* the loop is through with the first conflict of t.conflicts
AfterConflict(t, tr, pre) ==
  LET u == [t EXCEPT !.conflicts = Tail(t.conflicts), !.doc = NoDoc] IN
  IF u.conflicts # <<>>
    THEN /\ Goto(t, [u EXCEPT !.pc = "resolve"])
         /\ SetTracker(tr)
         /\ last' = Step("none", "none", pre)
         /\ UNCHANGED <<isSyncing, lastPushTimestamp, lastSyncTimestamp>>
    ELSE IF t.kind = "push"
      THEN PushFinish(t, u, tr, pre)
      ELSE /\ Goto(t, [u EXCEPT !.pc = "apply", !.todo = Tail(t.todo)])
           /\ SetTracker(tr)
           /\ last' = Step("none", "none", pre)
           /\ UNCHANGED <<isSyncing, lastPushTimestamp, lastSyncTimestamp>>

ResolveFailure(conflict) == Ev("sync:failed", "push", 0, conflict.documentId)

\* emit CONFLICT_DETECTED, call the resolver
ResolveConflict(t) ==
  /\ t.pc = "resolve"
  /\ LET conflict == Head(t.conflicts)
         detected == Ev("conflict:detected", "", 0, conflict.documentId)
         resolution == LastWriteWins(conflict)
         resolvedDocument == [id |-> conflict.documentId, data |-> resolution.resolvedData,
                              version |-> resolution.resolvedVersion, deleted |-> "false"]
     IN  \E ok \in ResolverOk :
           IF ok
             THEN /\ Goto(t, [t EXCEPT !.pc = "resolved", !.doc = resolvedDocument])
                  /\ last' = Step("none", "none", <<detected>>)
                  /\ UNCHANGED <<trackerVars, isSyncing, lastPushTimestamp,
                                 lastSyncTimestamp>>
             ELSE AfterConflict(t, Tracker, <<detected, ResolveFailure(conflict)>>)
  /\ UNCHANGED <<clock, documents, isStarted, isOnline, lastPullTimestamp,
                 timerVars, timeoutId, isConnected>>
  /\ UNCHANGED calls

\* after await resolver.resolve: store.put(resolvedDocument)
ResolvePut(t) ==
  /\ t.pc = "resolved"
  /\ \E ok \in StoreOk :
       IF ok
         THEN /\ documents' = StorePut(documents, t.doc)
              /\ Goto(t, [t EXCEPT !.pc = "resolvedPut"])
              /\ last' = Step("none", "none", <<>>)
              /\ UNCHANGED <<trackerVars, isSyncing, lastPushTimestamp, lastSyncTimestamp>>
         ELSE /\ AfterConflict(t, Tracker, <<ResolveFailure(Head(t.conflicts))>>)
              /\ UNCHANGED documents
  /\ UNCHANGED <<clock, isStarted, isOnline, lastPullTimestamp,
                 timerVars, timeoutId, isConnected>>
  /\ UNCHANGED calls

\* after await store.put: recordUpdate, emit CONFLICT_RESOLVED
ResolveRecord(t) ==
  /\ t.pc = "resolvedPut"
  /\ AfterConflict(t, recordUpdate(Tracker, t.doc),
                   <<Ev("conflict:resolved", "", 0, t.doc.id)>>)
  /\ UNCHANGED <<clock, documents, isStarted, isOnline, lastPullTimestamp,
                 timerVars, timeoutId, isConnected>>
  /\ UNCHANGED calls

(***************************************************************************)
(* applyRemoteChanges / applySingleRemoteChange / handleCreateOrUpdateChange*)
(***************************************************************************)
ApplyFailure(change) == Ev("sync:failed", "pull", 0, change.id)

\* a loop that stops one change short
appliedAll_early(t) == Len(t.todo) <= 1

\* for (const change of changes): no change is left
appliedAll(t) == t.todo = <<>>

\* a delete that spares a document newer than the remote version
applyDelete_sparesNewer(docs, change) ==
  IF change.id \in DOMAIN docs /\ docs[change.id].version.timestamp > change.version.timestamp
    THEN docs
    ELSE StoreDelete(docs, change.id)

\* applySingleRemoteChange, case 'delete': store.delete(change.id)
applyDelete(docs, change) == StoreDelete(docs, change.id)

\* a catch that leaves the loop
caught_breaks(t) == [t EXCEPT !.pc = "apply", !.todo = <<>>, !.doc = NoDoc]

\* the catch of applyRemoteChanges: the loop goes on with the next change
caught(t) == [t EXCEPT !.pc = "apply", !.todo = Tail(t.todo), !.doc = NoDoc]

\* the loop of applyRemoteChanges is at its next change, or through
ApplyNext(t) ==
  /\ t.kind \in {"pull", "remote"} /\ t.pc = "apply"
  /\ IF appliedAll(t)
       THEN IF t.kind = "pull"
              THEN \* lines 265-266
                   /\ lastPullTimestamp' = t.timestamp
                   /\ \E ok \in StoreOk :
                        IF ok
                          THEN /\ lastSyncTimestamp' = StoreSetLastSyncTimestamp(t.timestamp)
                               /\ Goto(t, [t EXCEPT !.pc = "persist"])
                               /\ last' = Step("none", "none", <<>>)
                               /\ UNCHANGED isSyncing
                          ELSE /\ PullFailed(t, <<>>)
                               /\ UNCHANGED lastSyncTimestamp
                   /\ UNCHANGED documents
              ELSE \* handleRemoteChanges: emitStateChange
                   /\ Finish(t)
                   /\ last' = Step("none", "none", <<StateChanged(isSyncing, changeQueue)>>)
                   /\ UNCHANGED <<documents, lastSyncTimestamp, lastPullTimestamp, isSyncing>>
       ELSE LET change == Head(t.todo) IN
            /\ \E ok \in StoreOk :
                 IF ~ok
                   THEN /\ Goto(t, caught(t))
                        /\ last' = Step("none", "none", <<ApplyFailure(change)>>)
                        /\ UNCHANGED documents
                   ELSE /\ last' = Step("none", "none", <<>>)
                        /\ IF change.operation \in {"create", "update"}
                             THEN IF change.data # "null"
                                    THEN /\ Goto(t, [t EXCEPT !.pc = "got",
                                                 !.doc = StoreGet(documents, change.id)])
                                         /\ UNCHANGED documents
                                    ELSE /\ Goto(t, [t EXCEPT !.todo = Tail(t.todo)])
                                         /\ UNCHANGED documents
                             ELSE /\ documents' = applyDelete(documents, change)
                                  /\ Goto(t, [t EXCEPT !.todo = Tail(t.todo)])
            /\ UNCHANGED <<lastSyncTimestamp, lastPullTimestamp, isSyncing>>
  /\ UNCHANGED <<clock, trackerVars, isStarted, isOnline, lastPushTimestamp,
                 timerVars, timeoutId, isConnected>>
  /\ UNCHANGED calls

\* a test that takes an equal timestamp for a conflict too
localIsNewer_orEqual(existing, change) ==
  existing # NoDoc /\ existing.version.timestamp >= change.version.timestamp

\* existing && existing.version.timestamp > change.version.timestamp
localIsNewer(existing, change) ==
  existing # NoDoc /\ existing.version.timestamp > change.version.timestamp

\* handleCreateOrUpdateChange after await store.get
ApplyGot(t) ==
  /\ t.pc = "got"
  /\ LET change == Head(t.todo)
         existing == t.doc
         document == [id |-> change.id, data |-> change.data, version |-> change.version,
                      deleted |-> "false"]
         conflict == [documentId |-> change.id, localVersion |-> existing.version,
                      remoteVersion |-> change.version, localData |-> existing.data,
                      remoteData |-> change.data]
     IN  IF localIsNewer(existing, change)
           THEN /\ Goto(t, [t EXCEPT !.pc = "resolve", !.conflicts = <<conflict>>,
                                     !.doc = NoDoc])
                /\ last' = Step("none", "none", <<>>)
                /\ UNCHANGED documents
           ELSE \E ok \in StoreOk :
                  IF ok
                    THEN /\ documents' = StorePut(documents, document)
                         /\ Goto(t, [t EXCEPT !.pc = "apply", !.todo = Tail(t.todo),
                                              !.doc = NoDoc])
                         /\ last' = Step("none", "none", <<>>)
                    ELSE /\ Goto(t, caught(t))
                         /\ last' = Step("none", "none", <<ApplyFailure(change)>>)
                         /\ UNCHANGED documents
  /\ UNCHANGED <<clock, lastSyncTimestamp, trackerVars, engineVars, timerVars,
                 timeoutId, isConnected>>
  /\ UNCHANGED calls

\* pull() after await store.setLastSyncTimestamp: emit SYNC_COMPLETED, finally
PullPersisted(t) ==
  /\ t.kind = "pull" /\ t.pc = "persist"
  /\ isSyncing' = FALSE
  /\ EndPull(t)
  /\ last' = Return("none", <<Ev("sync:completed", "pull", Len(t.batch), ""),
                               StateChanged(FALSE, changeQueue)>>)
  /\ UNCHANGED <<clock, storeVars, trackerVars, isStarted, isOnline, lastPullTimestamp,
                 lastPushTimestamp, timerVars, timeoutId, isConnected>>
  /\ UNCHANGED calls

(***************************************************************************)
(* updateOnlineStatus, start, stop, the timers and the real-time callback. *)
(***************************************************************************)
\* a probe that schedules no sync
schedulesSync_never(online) == FALSE

\* if (this.isOnline && this.isStarted) setTimeout(() => this.sync(), 1000)
schedulesSync(online) == online /\ isStarted

\* the transport answers isOnline(); t is a probe or start() awaiting its probe
ProbeResult(t) ==
  /\ t.kind \in {"probe", "start"} /\ t.pc = "probe"
  /\ \E threw \in ProbeThrows :
       IF threw
         THEN /\ isOnline' = FALSE
              /\ last' = Step("none", "none", <<>>)
              /\ UNCHANGED onlineTimeouts
         ELSE /\ isOnline' = isConnected
              /\ IF t.wasOnline # isConnected
                   THEN /\ last' = Step("none", "none",
                               <<Ev(IF isConnected THEN "connection:online"
                                                   ELSE "connection:offline", "", 0, ""),
                                 StateChanged(isSyncing, changeQueue)>>)
                        /\ onlineTimeouts' = IF schedulesSync(isConnected)
                                               THEN onlineTimeouts + 1 ELSE onlineTimeouts
                   ELSE /\ last' = Step("none", "none", <<>>)
                        /\ UNCHANGED onlineTimeouts
  /\ IF t.kind = "start" THEN Goto(t, [t EXCEPT !.pc = "probed"]) ELSE Finish(t)
  /\ UNCHANGED <<clock, storeVars, trackerVars, isStarted, isSyncing, lastPullTimestamp,
                 lastPushTimestamp, config, listeners, handles, other, syncInterval, onlineCheckInterval,
                 intervals, subscriptions, timeoutId, isConnected>>
  /\ UNCHANGED calls

\* a start() that does not test isStarted
StartCall_again ==
  /\ intervals.probe < MaxTimers /\ subscriptions < MaxSubscriptions
  /\ onlineTimeouts < MaxTimers
  /\ isStarted' = TRUE
  /\ \E ok \in StoreOk :
       Spawn([Task0 EXCEPT !.kind = "start", !.pc = "init",
                           !.timestamp = IF ok THEN lastSyncTimestamp ELSE 0])
  /\ last' = Step("start", "none", <<>>)
  /\ UNCHANGED <<clock, storeVars, trackerVars, isSyncing, isOnline, lastPullTimestamp,
                 lastPushTimestamp, timerVars, timeoutId, isConnected>>
  /\ Called

\* start(): isStarted := true; initializeState reads the store
StartCall ==
  /\ IF isStarted
       THEN UNCHANGED <<isStarted, tasks>>
       ELSE /\ intervals.probe < MaxTimers /\ subscriptions < MaxSubscriptions
            /\ onlineTimeouts < MaxTimers
            /\ isStarted' = TRUE
            /\ \E ok \in StoreOk :
                 Spawn([Task0 EXCEPT !.kind = "start", !.pc = "init",
                                     !.timestamp = IF ok THEN lastSyncTimestamp ELSE 0])
  /\ last' = Step("start", "none", <<>>)
  /\ UNCHANGED <<clock, storeVars, trackerVars, isSyncing, isOnline, lastPullTimestamp,
                 lastPushTimestamp, timerVars, timeoutId, isConnected>>
  /\ Called

\* after await initializeState(): updateOnlineStatus() reads isOnline, calls the transport
StartInit(t) ==
  /\ t.kind = "start" /\ t.pc = "init"
  /\ lastPullTimestamp' = t.timestamp
  /\ lastPushTimestamp' = t.timestamp
  /\ Goto(t, [t EXCEPT !.pc = "probe", !.wasOnline = isOnline, !.timestamp = 0])
  /\ last' = Step("none", "isOnline", <<>>)
  /\ UNCHANGED <<clock, storeVars, trackerVars, isStarted, isSyncing, isOnline,
                 timerVars, timeoutId, isConnected>>
  /\ UNCHANGED calls

\* after await updateOnlineStatus(): timers, subscription, initial sync
StartInstall(t) ==
  /\ t.kind = "start" /\ t.pc = "probed"
  /\ syncInterval' = (config.periodic \/ syncInterval)
  /\ onlineCheckInterval' = TRUE
  /\ intervals' = [sync |-> intervals.sync + (IF config.periodic THEN 1 ELSE 0),
                   probe |-> intervals.probe + 1]
  /\ subscriptions' = subscriptions + 1
  /\ IF isOnline
       THEN TrySync(t, "sync", <<>>)
       ELSE /\ Finish(t)
            /\ last' = Step("none", "none", <<>>)
            /\ UNCHANGED isSyncing
  /\ UNCHANGED <<clock, storeVars, trackerVars, isStarted, isOnline, lastPullTimestamp,
                 lastPushTimestamp, config, listeners, handles, other, onlineTimeouts, timeoutId, isConnected>>
  /\ UNCHANGED calls

StopCall ==
  /\ IF ~isStarted
       THEN UNCHANGED <<isStarted, syncInterval, onlineCheckInterval, intervals>>
       ELSE /\ isStarted' = FALSE
            /\ syncInterval' = FALSE
            /\ onlineCheckInterval' = FALSE
            /\ intervals' = [sync |-> intervals.sync - (IF syncInterval THEN 1 ELSE 0),
                             probe |-> intervals.probe - (IF onlineCheckInterval THEN 1 ELSE 0)]
  /\ last' = Step("stop", "none", <<>>)
  /\ UNCHANGED <<clock, storeVars, trackerVars, isSyncing, isOnline, lastPullTimestamp,
                 lastPushTimestamp, config, listeners, handles, other, onlineTimeouts, subscriptions, timeoutId,
                 isConnected, tasks>>
  /\ Called

\* A timer callback is a task of the event loop: it does not run between the
\* end of the pull() that sync() awaits and the push() that sync() then calls,
\* which is a promise continuation.
TimersRun == \A t \in Live : ~(t.kind = "sync" /\ t.pc = "gap")

\* the periodic sync ticker fires
TickerFire ==
  /\ TimersRun
  /\ intervals.sync > 0
  /\ IF isOnline /\ ~isSyncing
       THEN TrySync(Task0, "sync", <<>>)
       ELSE /\ last' = Step("none", "none", <<>>)
            /\ UNCHANGED <<isSyncing, tasks>>
  /\ UNCHANGED restOfSync
  /\ UNCHANGED calls

\* the online probe ticker fires: updateOnlineStatus()
ProbeTick ==
  /\ TimersRun
  /\ intervals.probe > 0
  /\ onlineTimeouts < MaxTimers
  /\ Spawn([Task0 EXCEPT !.kind = "probe", !.pc = "probe", !.wasOnline = isOnline])
  /\ last' = Step("none", "isOnline", <<>>)
  /\ UNCHANGED <<clock, storeVars, trackerVars, engineVars, timerVars, timeoutId,
                 isConnected>>
  /\ UNCHANGED calls

\* the probe ticker fires after the transport has answered the last probe
ProbeTickAnswered == Count({"probe"}) = 0 /\ ProbeTick

\* the debounce timer fires: push(), then timeoutId := null
DebounceFire ==
  /\ TimersRun
  /\ timeoutId
  /\ TryPush(Task0, FALSE, "push", <<>>)
  /\ timeoutId' = FALSE
  /\ UNCHANGED <<clock, storeVars, trackerVars, isStarted, isOnline, lastPullTimestamp,
                 lastPushTimestamp, timerVars, isConnected>>
  /\ UNCHANGED calls

\* config.debounceDelay, in units of the clock
DebounceDelay == 2

\* a timer that is not reset: it runs from the first recorded write
Armed_first == changeQueue[1].localTimestamp

\* the instant of the last debouncePush() call, which has cleared the pending
\* timeout and set the one that is pending: every CRUD method calls it in the
\* step in which it records its change, at now()
Armed == changeQueue[Len(changeQueue)].localTimestamp

\* time passes by one unit; a pending timeout fires when its delay is over
TimePasses ==
  /\ clock < MaxTime
  /\ timeoutId => clock < Armed + DebounceDelay
  /\ clock' = clock + 1
  /\ last' = Step("none", "none", <<>>)
  /\ UNCHANGED <<storeVars, trackerVars, engineVars, timerVars, timeoutId,
                 isConnected, tasks>>
  /\ UNCHANGED calls

\* the debounce timer fires debounceDelay after it was set
DebounceDue == timeoutId /\ clock >= Armed + DebounceDelay /\ DebounceFire

\* the setTimeout of updateOnlineStatus fires: sync()
OnlineTimeoutFire ==
  /\ TimersRun
  /\ onlineTimeouts > 0
  /\ TrySync(Task0, "sync", <<>>)
  /\ onlineTimeouts' = onlineTimeouts - 1
  /\ UNCHANGED <<clock, storeVars, trackerVars, isStarted, isOnline, lastPullTimestamp,
                 lastPushTimestamp, config, listeners, handles, other, syncInterval, onlineCheckInterval,
                 intervals, subscriptions, timeoutId, isConnected>>
  /\ UNCHANGED calls

\* a callback that does not look at isStarted
RemoteDeliver_whileStopped ==
  /\ subscriptions > 0
  /\ RemoteRoom
  /\ config.remote
  /\ \E cs \in RemoteBatches \ {<<>>} :
       IF FALSE
         THEN UNCHANGED tasks
         ELSE /\ BagCardinality(tasks) + subscriptions <= MaxTasks
              /\ tasks' = tasks (+) [t \in {[Task0 EXCEPT !.kind = "remote", !.pc = "apply",
                                                          !.todo = cs]} |-> subscriptions]
  /\ last' = Step("onRemoteChange", "none", <<>>)
  /\ UNCHANGED <<clock, storeVars, trackerVars, engineVars, timerVars, timeoutId,
                 isConnected>>
  /\ Called

\* the transport calls every registered onRemoteChange callback: handleRemoteChanges
RemoteDeliver ==
  /\ subscriptions > 0
  /\ RemoteRoom
  /\ config.remote
  /\ \E cs \in RemoteBatches \ {<<>>} :
       IF ~isStarted
         THEN UNCHANGED tasks
         ELSE /\ BagCardinality(tasks) + subscriptions <= MaxTasks
              /\ tasks' = tasks (+) [t \in {[Task0 EXCEPT !.kind = "remote", !.pc = "apply",
                                                          !.todo = cs]} |-> subscriptions]
  /\ last' = Step("onRemoteChange", "none", <<>>)
  /\ UNCHANGED <<clock, storeVars, trackerVars, engineVars, timerVars, timeoutId,
                 isConnected>>
  /\ Called

(***************************************************************************)
(* Specifications.  Fresh is the engine after construction.  Running is    *)
(* the engine after start() has completed against a reachable transport    *)
(* with an empty server: the initial pull at time 1 has set lastPull-      *)
(* Timestamp and the store's timestamp, the post-online sync has run.      *)
(***************************************************************************)
Fresh ==
  /\ clock \in Clock
  /\ documents = <<>>
  /\ lastSyncTimestamp = 0
  /\ changes = <<>>
  /\ changeQueue = <<>>
  /\ isStarted = FALSE /\ isSyncing = FALSE /\ isOnline = FALSE
  /\ lastPullTimestamp = 0 /\ lastPushTimestamp = 0
  /\ syncInterval = FALSE /\ onlineCheckInterval = FALSE
  /\ intervals = [sync |-> 0, probe |-> 0]
  /\ timeoutId = FALSE /\ onlineTimeouts = 0 /\ subscriptions = 0
  /\ listeners = <<>> /\ handles = <<>> /\ other = NoTracker
  /\ tasks = EmptyBag
  /\ last = Step("none", "none", <<>>)

Running ==
  /\ clock \in Clock
  /\ documents = <<>>
  /\ lastSyncTimestamp = 1
  /\ changes = <<>>
  /\ changeQueue = <<>>
  /\ isStarted = TRUE /\ isSyncing = FALSE /\ isOnline = TRUE
  /\ lastPullTimestamp = 1 /\ lastPushTimestamp = 0
  /\ syncInterval = config.periodic /\ onlineCheckInterval = TRUE
  /\ intervals = [sync |-> IF config.periodic THEN 1 ELSE 0, probe |-> 1]
  /\ timeoutId = FALSE /\ onlineTimeouts = 0 /\ subscriptions = 1
  /\ listeners = <<>> /\ handles = <<>> /\ other = NoTracker
  /\ tasks = EmptyBag
  /\ last = Return("push", <<>>)

Plain == [periodic |-> FALSE, store |-> "memory", transport |-> "reporting",
          resolver |-> "lww", remote |-> FALSE,
          batchSize |-> BatchSize, answers |-> MaxRemote, ids |-> {"a"}]

\* every failure the collaborators' contracts allow, a server with other clients
Hostile == [periodic |-> FALSE, store |-> "rejecting", transport |-> "throwing",
            resolver |-> "failing", remote |-> TRUE,
            batchSize |-> BatchSize, answers |-> MaxRemote, ids |-> {"a"}]

\* The engine from construction on: lifecycle, probes, timers, every caller of sync.
Init ==
  /\ config \in {[Plain EXCEPT !.periodic = b] : b \in BOOLEAN}
  /\ isConnected \in BOOLEAN
  /\ calls = MaxCalls
  /\ Fresh

Next ==
  \/ ConnChange
  \/ CreateCall
  \/ PullCall \/ PushCall \/ SyncCall
  \/ StartCall \/ StopCall
  \/ TickerFire \/ ProbeTick \/ DebounceFire \/ OnlineTimeoutFire
  \/ \E t \in Live : CreateDone(t)
  \/ \E t \in Live : SyncPush(t)
  \/ \E t \in Live : PullResult(t)
  \/ \E t \in Live : ApplyNext(t)
  \/ \E t \in Live : PullPersisted(t)
  \/ \E t \in Live : PushResult(t)
  \/ \E t \in Live : PushPersisted(t)
  \/ \E t \in Live : ProbeResult(t)
  \/ \E t \in Live : StartInit(t)
  \/ \E t \in Live : StartInstall(t)

Spec == Init /\ [][Next]_vars

\* Local CRUD under a clock that may stand still or jump.
InitCrud ==
  /\ config = Plain
  /\ isConnected = FALSE
  /\ calls = MaxCallsCrud
  /\ Fresh

NextCrud ==
  \/ ClockChange
  \/ CreateCall \/ PutCall \/ UpdateCall \/ DeleteCall
  \/ \E t \in Live : CreateDone(t)
  \/ \E t \in Live : PutDone(t)
  \/ \E t \in Live : UpdatePut(t)
  \/ \E t \in Live : UpdateDone(t)
  \/ \E t \in Live : DeleteStore(t)
  \/ \E t \in Live : DeleteDone(t)

SpecCrud == InitCrud /\ [][NextCrud]_vars

\* push() of a running engine, with local writes while it is in flight.
InitPush ==
  /\ config = Hostile
  /\ isConnected = TRUE
  /\ calls = MaxCallsPush
  /\ Running

NextPush ==
  \/ ClockChange
  \/ CreateCall
  \/ PushCall \/ DebounceFire
  \/ \E t \in Live : CreateDone(t)
  \/ \E t \in Live : Backoff(t)
  \/ \E t \in Live : PushResult(t)
  \/ \E t \in Live : PushPersisted(t)
  \/ \E t \in Live : ResolveConflict(t)
  \/ \E t \in Live : ResolvePut(t)
  \/ \E t \in Live : ResolveRecord(t)

SpecPush == InitPush /\ [][NextPush]_vars

\* pull() of a running engine, with local writes while it is in flight.
InitPull ==
  /\ config = Hostile
  /\ isConnected = TRUE
  /\ calls = MaxCallsPull
  /\ Running

NextPull ==
  \/ ClockChange
  \/ CreateCall
  \/ PullCall
  \/ \E t \in Live : CreateDone(t)
  \/ \E t \in Live : Backoff(t)
  \/ \E t \in Live : PullResult(t)
  \/ \E t \in Live : ApplyNext(t)
  \/ \E t \in Live : ApplyGot(t)
  \/ \E t \in Live : PullPersisted(t)
  \/ \E t \in Live : ResolveConflict(t)
  \/ \E t \in Live : ResolvePut(t)
  \/ \E t \in Live : ResolveRecord(t)

SpecPull == InitPull /\ [][NextPull]_vars

\* sync() of a running engine: the pull half, then the push half, with local
\* writes and a second sync() while it is in flight.
InitSync ==
  /\ config = Hostile
  /\ isConnected = TRUE
  /\ calls = MaxCallsSync
  /\ Running

NextSync ==
  \/ ClockChange
  \/ CreateCall
  \/ SyncCall
  \/ \E t \in Live : CreateDone(t)
  \/ \E t \in Live : SyncPush(t)
  \/ \E t \in Live : Backoff(t)
  \/ \E t \in Live : PullResult(t)
  \/ \E t \in Live : ApplyNext(t)
  \/ \E t \in Live : ApplyGot(t)
  \/ \E t \in Live : PullPersisted(t)
  \/ \E t \in Live : PushResult(t)
  \/ \E t \in Live : PushPersisted(t)
  \/ \E t \in Live : ResolveConflict(t)
  \/ \E t \in Live : ResolvePut(t)
  \/ \E t \in Live : ResolveRecord(t)

SpecSync == InitSync /\ [][NextSync]_vars

\* Writes to an engine that is not started, in measured time: the clock only
\* advances, by TimePasses, and the debounce timer fires on time.
InitDebounce ==
  /\ config = Plain
  /\ isConnected = FALSE
  /\ calls = MaxCallsDebounce
  /\ Fresh
  /\ clock = 1

NextDebounce ==
  \/ TimePasses
  \/ CreateCall
  \/ DebounceDue
  \/ \E t \in Live : CreateDone(t)

SpecDebounce == InitDebounce /\ [][NextDebounce]_vars

\* The online probe of a running engine whose transport comes and goes and
\* whose calls may throw; a probe is answered before the probe ticker fires
\* again.
InitProbe ==
  /\ config = [Plain EXCEPT !.transport = "throwing"]
  /\ isConnected = TRUE
  /\ calls = MaxCallsProbe
  /\ Running

NextProbe ==
  \/ ConnChange
  \/ CreateCall
  \/ ProbeTickAnswered \/ OnlineTimeoutFire
  \/ \E t \in Live : CreateDone(t)
  \/ \E t \in Live : ProbeResult(t)
  \/ \E t \in Live : SyncPush(t)
  \/ \E t \in Live : Backoff(t)
  \/ \E t \in Live : PullResult(t)
  \/ \E t \in Live : ApplyNext(t)
  \/ \E t \in Live : PullPersisted(t)
  \/ \E t \in Live : PushResult(t)
  \/ \E t \in Live : PushPersisted(t)

SpecProbe == InitProbe /\ [][NextProbe]_vars

\* The conflicts a server may report for the stored document: the version
\* ids and timestamps of both sides are the server's and the application's.
ConflictInputs ==
  [documentId : {"a"},
   localVersion : [id : {"a", "b"}, timestamp : 1..MaxTs],
   remoteVersion : [id : {"a", "b"}, timestamp : 1..MaxTs],
   localData : LocalData, remoteData : {RemoteData}]

\* A running engine whose push of the one pending change has got a result
\* with one conflict and goes into resolveConflicts.
InitResolve ==
  /\ config = Plain
  /\ isConnected = TRUE
  /\ calls = 0
  /\ clock = 1
  /\ lastSyncTimestamp = 1
  /\ isStarted = TRUE /\ isSyncing = TRUE /\ isOnline = TRUE
  /\ lastPullTimestamp = 1 /\ lastPushTimestamp = 0
  /\ syncInterval = config.periodic /\ onlineCheckInterval = TRUE
  /\ intervals = [sync |-> 0, probe |-> 1]
  /\ timeoutId = FALSE /\ onlineTimeouts = 0 /\ subscriptions = 1
  /\ listeners = <<>> /\ handles = <<>> /\ other = NoTracker
  /\ last = Got([Task0 EXCEPT !.pc = "transport"], "ok", Step("none", "none", <<>>))
  /\ \E conflict \in ConflictInputs, ts \in {0, 1} :
       LET change == [id |-> "a", operation |-> "update", data |-> conflict.localData,
                      version |-> conflict.localVersion, localTimestamp |-> 1]
       IN  /\ documents = MapSet(<<>>, "a", [id |-> "a", data |-> conflict.localData,
                                            version |-> conflict.localVersion,
                                            deleted |-> "undefined"])
           /\ changes = MapSet(<<>>, "a", change)
           /\ changeQueue = <<change>>
           /\ tasks = SetToBag({[Task0 EXCEPT
                 !.kind = "push", !.pc = "resolve", !.attempt = 1, !.batch = <<change>>,
                 !.conflicts = <<conflict>>, !.timestamp = ts,
                 !.entry = [pull |-> 1, push |-> 0, store |-> 1, queue |-> <<change>>]]})

NextResolve ==
  \/ \E t \in Live : ResolveConflict(t)
  \/ \E t \in Live : ResolvePut(t)
  \/ \E t \in Live : ResolveRecord(t)
  \/ \E t \in Live : PushPersisted(t)

SpecResolve == InitResolve /\ [][NextResolve]_vars

\* The engine after start() has completed against an unreachable transport.
StartedOffline ==
  /\ clock = 1
  /\ documents = <<>>
  /\ lastSyncTimestamp = 0
  /\ changes = <<>>
  /\ changeQueue = <<>>
  /\ isStarted = TRUE /\ isSyncing = FALSE /\ isOnline = FALSE
  /\ lastPullTimestamp = 0 /\ lastPushTimestamp = 0
  /\ syncInterval = config.periodic /\ onlineCheckInterval = TRUE
  /\ intervals = [sync |-> IF config.periodic THEN 1 ELSE 0, probe |-> 1]
  /\ timeoutId = FALSE /\ onlineTimeouts = 0 /\ subscriptions = 1
  /\ listeners = <<>> /\ handles = <<>> /\ other = NoTracker
  /\ tasks = EmptyBag
  /\ last = Step("none", "none", <<>>)

\* Offline writes, then the transport becomes reachable and stays so; its
\* calls succeed while it is reachable, the server reports no conflict.  The
\* timers fire and the suspended tasks resume (weak fairness); the
\* application's calls, the passing of time and the reconnection are not
\* forced.  A probe is answered before the probe ticker fires again.
InitLive ==
  /\ config \in {[Plain EXCEPT !.periodic = b, !.transport = "reliable"] : b \in BOOLEAN}
  /\ isConnected = FALSE
  /\ calls = MaxCallsLive
  /\ StartedOffline

NextLive ==
  \/ ClockAdvance
  \/ Reconnect
  \/ CreateCall
  \/ SyncCall
  \/ TickerFire \/ ProbeTickAnswered \/ DebounceFire \/ OnlineTimeoutFire
  \/ \E t \in Live : CreateDone(t)
  \/ \E t \in Live : SyncPush(t)
  \/ \E t \in Live : PullResult(t)
  \/ \E t \in Live : ApplyNext(t)
  \/ \E t \in Live : PullPersisted(t)
  \/ \E t \in Live : PushResult(t)
  \/ \E t \in Live : PushPersisted(t)
  \/ \E t \in Live : ProbeResult(t)

FairLive ==
  /\ WF_vars(TickerFire) /\ WF_vars(ProbeTickAnswered)
  /\ WF_vars(DebounceFire) /\ WF_vars(OnlineTimeoutFire)
  /\ WF_vars(\E t \in Live : CreateDone(t))
  /\ WF_vars(\E t \in Live : SyncPush(t))
  /\ WF_vars(\E t \in Live : PullResult(t))
  /\ WF_vars(\E t \in Live : ApplyNext(t))
  /\ WF_vars(\E t \in Live : PullPersisted(t))
  /\ WF_vars(\E t \in Live : PushResult(t))
  /\ WF_vars(\E t \in Live : PushPersisted(t))
  /\ WF_vars(\E t \in Live : ProbeResult(t))

SpecLive == InitLive /\ [][NextLive]_vars /\ FairLive

(***************************************************************************)
(* Properties.  A step "moves" a task from t to u when the bag loses a     *)
(* copy of t and gains a copy of u.                                        *)
(***************************************************************************)
Moves(t, u) == /\ CopiesIn(t, tasks') < CopiesIn(t, tasks)
               /\ CopiesIn(u, tasks') > CopiesIn(u, tasks)
Ends(t) == CopiesIn(t, tasks') < CopiesIn(t, tasks)

Range(seq) == {seq[i] : i \in DOMAIN seq}
IsPrefix(p, q) == Len(p) <= Len(q) /\ SubSeq(q, 1, Len(p)) = p
\* p occurs in q as a block of consecutive elements
Occurs(p, q) == \E k \in 0..(Len(q) - Len(p)) : SubSeq(q, k + 1, k + Len(p)) = p

\* C7: any two successive writes of one id through create, update or put:
\* the later write stores a strictly greater version.timestamp.
C7_WritesIncrease ==
  [][\A id \in (DOMAIN documents) \cap (DOMAIN documents') :
       documents'[id] # documents[id] =>
         documents'[id].version.timestamp > documents[id].version.timestamp]_vars

\* C8: update(id, data) on a stored document read with version.timestamp p
\* stores a document with version.timestamp = now() if now() > p, else p + 1;
\* the document id and version.id are those of the stored document.
C8_UpdateTimestamp ==
  [][\A t \in Live : \A u \in BagToSet(tasks') :
       (t.kind = "update" /\ t.pc = "get" /\ u.kind = "update" /\ u.pc = "put"
        /\ Moves(t, u)) =>
         LET p == t.prev.timestamp IN
         /\ u.doc.version.timestamp = (IF now > p THEN now ELSE p + 1)
         /\ u.doc.version.timestamp > p
         /\ u.doc.id = t.doc.id
         /\ u.doc.version.id = t.prev.id
         /\ u.doc.data = t.doc.data
         /\ documents'[t.doc.id] = u.doc]_vars

\* update() has stored p + 1 because the clock did not pass p
C8_Witness ==
  \E u \in Live : /\ u.kind = "update" /\ u.pc = "put"
                   /\ now <= u.prev.timestamp
                   /\ u.doc.version.timestamp = u.prev.timestamp + 1
                   /\ documents[u.doc.id] = u.doc

Emitted(step, name, type) ==
  {e \in Range(step.emitted) : e.name = name /\ e.type = type /\ e.id = ""}

\* C9: a pull that succeeds sets lastPullTimestamp and the store's
\* lastSyncTimestamp to the timestamp of the transport's result, only once
\* every change of the result has gone through the apply loop, and its
\* SYNC_COMPLETED event carries the number of changes of the result.
C9_PullCompletes ==
  [][\A t \in Live : t.kind = "pull" =>
       /\ (\E u \in BagToSet(tasks') : u.kind = "pull" /\ u.pc = "persist" /\ Moves(t, u)) =>
            /\ t.todo = <<>>
            /\ lastPullTimestamp' = t.timestamp
            /\ lastSyncTimestamp' = t.timestamp
       /\ (Ends(t) /\ Emitted(last', "sync:completed", "pull") # {}) =>
            /\ t.pc = "persist" /\ t.todo = <<>>
            /\ lastPullTimestamp' = t.timestamp
            /\ lastSyncTimestamp' = t.timestamp
            /\ \A e \in Emitted(last', "sync:completed", "pull") : e.count = Len(t.batch)
       /\ lastPullTimestamp' # lastPullTimestamp => t.pc = "apply" /\ t.todo = <<>>]_vars

\* a pull of a non-empty result has completed and moved both timestamps
C9_Witness ==
  /\ \E e \in Emitted(last, "sync:completed", "pull") : e.count > 0
  /\ lastPullTimestamp = lastSyncTimestamp
  /\ lastPullTimestamp # 1
  /\ ~isSyncing

\* C10: when a pull ends with SYNC_FAILED{PULL}, lastPullTimestamp and the
\* store's lastSyncTimestamp are what they were when the pull started, and
\* the promise of pull() is not rejected.
C10_FailedPullKeepsTimestamp ==
  [][\A t \in Live :
       (t.kind = "pull" /\ Ends(t) /\ Emitted(last', "sync:failed", "pull") # {}) =>
         /\ lastPullTimestamp' = t.entry.pull
         /\ lastSyncTimestamp' = t.entry.store
         /\ last'.settled = "resolved"]_vars

\* C4: SYNC_FAILED is emitted for a failed transport call only after the
\* transport has been tried retryAttempts times, also when the tries fail by
\* returning success=false.
C4_NegativeResultRetried ==
  [][\A t \in Live :
       (t.kind \in {"pull", "push"} /\ Ends(t) /\ last'.result = "failure") =>
         /\ t.attempt = RetryAttempts
         /\ Emitted(last', "sync:failed", t.kind) # {}]_vars

\* the step in which push() t clears the pushed changes: it goes on to persist
\* the timestamp, or completes at once when the result carries none
Clears(t) ==
  /\ t.kind = "push" /\ t.pc # "persist"
  /\ \/ \E u \in BagToSet(tasks') : u.kind = "push" /\ u.pc = "persist" /\ Moves(t, u)
     \/ Ends(t) /\ Emitted(last', "sync:completed", "push") # {}

\* C2: when a push succeeds, no change of the pushed batch is pending any more,
\* and the changes appended to the queue after the snapshot are all still
\* pending, in their order.
C2_AppendedStayPending ==
  [][\A t \in Live : Clears(t) =>
       LET appended == SubSeq(changeQueue, Len(t.entry.queue) + 1, Len(changeQueue)) IN
       /\ \A i \in DOMAIN t.batch : t.batch[i] \notin Range(changeQueue')
       /\ Occurs(appended, changeQueue')]_vars

\* C3: when the transport call of a push fails for good, SYNC_FAILED{PUSH} is
\* emitted, the promise of push() is not rejected, lastPushTimestamp is what
\* it was when the push started, and the queue still begins with the changes
\* it held when the push started.
C3_FailedPushKeepsQueue ==
  [][\A t \in Live :
       (t.kind = "push" /\ Ends(t) /\ last'.result = "failure") =>
         /\ Emitted(last', "sync:failed", "push") # {}
         /\ Emitted(last', "sync:completed", "push") = {}
         /\ last'.settled = "resolved"
         /\ lastPushTimestamp' = t.entry.push
         /\ lastSyncTimestamp' = t.entry.store
         /\ IsPrefix(t.entry.queue, changeQueue')
         /\ t.entry.queue # <<>>
         /\ ~isSyncing']_vars

\* a push has failed after a local write was queued behind its snapshot
C3_Witness ==
  /\ last.result = "failure"
  /\ Emitted(last, "sync:failed", "push") # {}
  /\ Len(changeQueue) > 1
  /\ ~isSyncing

\* pulls and pushes between isSyncing := true and their finally block
InFlight == Count({"pull", "push"})

SyncCalls == {"pull", "push", "sync"}

\* C1: at most one pull or push is in flight, whoever calls pull, push and
\* sync (the application, the ticker, the debounced push, the post-online
\* timeout, start); a pull, push or sync invoked while isSyncing is true
\* returns without calling the transport and without emitting an event.
C1_OneInFlight ==
  /\ [](InFlight <= 1 /\ (isSyncing <=> InFlight = 1))
  /\ [][(last'.call \in SyncCalls /\ isSyncing) =>
          /\ last'.transport = "none"
          /\ last'.emitted = <<>>
          /\ last'.settled = "resolved"
          /\ isSyncing'
          /\ {t \in BagToSet(tasks') : t.kind \in {"pull", "push"}}
               = {t \in Live : t.kind \in {"pull", "push"}}]_vars

\* a call has come back at once because a pull or push was in flight
C1_Witness ==
  /\ isSyncing /\ isOnline /\ InFlight = 1
  /\ last.call \in SyncCalls
  /\ last.settled = "resolved"
  /\ changeQueue # <<>>

\* C5: pull, push and sync invoked while isOnline is false call no transport
\* method, emit nothing and leave the queue, the tracker and the timestamps
\* as they are; with nothing in flight, what is pending offline stays pending.
C5_OfflineNoOp ==
  /\ [][(last'.call \in SyncCalls /\ ~isOnline) =>
          /\ last'.transport = "none"
          /\ last'.emitted = <<>>
          /\ last'.settled = "resolved"
          /\ UNCHANGED <<changeQueue, changes, lastPullTimestamp, lastPushTimestamp,
                         lastSyncTimestamp, isSyncing, documents>>
          /\ {t \in BagToSet(tasks') : t.kind \in {"pull", "push"}}
               = {t \in Live : t.kind \in {"pull", "push"}}]_vars
  /\ [][(~isOnline /\ ~isSyncing) => IsPrefix(changeQueue, changeQueue')]_vars

\* sync, push or pull has come back at once offline, a local change pending
C5_Witness ==
  /\ ~isOnline /\ ~isSyncing
  /\ last.call \in SyncCalls
  /\ last.settled = "resolved"
  /\ changeQueue # <<>>

\* started, offline, changes pending, the transport reachable again
Reconnected == isStarted /\ ~isOnline /\ changeQueue # <<>> /\ isConnected

\* the application makes no further call and no local write is under way
Quiet == calls = 0 /\ InFlightCrud = 0

C12_LocalWins ==
  [][\A t \in Live : t.kind = "pull" =>
       LET x == Head(t.todo).id
           local == [id |-> x, data |-> Head(t.conflicts).localData,
                     version |-> Head(t.conflicts).localVersion, deleted |-> "false"]
       IN
       /\ IsPrefix(changeQueue, changeQueue')
       /\ (/\ t.pc = "got" /\ Ends(t) /\ t.doc # NoDoc
            /\ t.doc.version.timestamp > Head(t.todo).version.timestamp) =>
             /\ documents' = documents
             /\ \E u \in BagToSet(tasks') :
                  /\ Moves(t, u) /\ u.pc = "resolve" /\ Len(u.conflicts) = 1
                  /\ u.conflicts[1].localData = t.doc.data
                  /\ u.conflicts[1].localVersion = t.doc.version
       /\ (t.pc = "resolve" /\ Ends(t)) =>
             /\ last'.emitted # <<>>
             /\ last'.emitted[1] = Ev("conflict:detected", "", 0, x)
             /\ \A u \in BagToSet(tasks') : (Moves(t, u) /\ u.pc = "resolved") => u.doc = local
       /\ (t.pc = "resolved" /\ \E u \in BagToSet(tasks') : Moves(t, u) /\ u.pc = "resolvedPut") =>
             /\ x \in DOMAIN documents'
             /\ documents'[x] = local
       /\ (t.pc = "resolvedPut" /\ Ends(t)) =>
             /\ last'.emitted = <<Ev("conflict:resolved", "", 0, x)>>
             /\ Len(changeQueue') = Len(changeQueue) + 1
             /\ LET change == changeQueue'[Len(changeQueue')] IN
                  /\ change.id = x /\ change.operation = "update"
                  /\ change.data = local.data /\ change.version = local.version]_vars

\* a pull has resolved a conflict: the store holds the local document and
\* the update change is the last of the queue
C12_Witness ==
  /\ last.emitted = <<Ev("conflict:resolved", "", 0, "a")>>
  /\ \E t \in Live : t.kind = "pull" /\ t.pc \in {"apply", "persist"}
  /\ "a" \in DOMAIN documents /\ documents["a"].data \in LocalData
  /\ changeQueue # <<>>
  /\ changeQueue[Len(changeQueue)].operation = "update"
  /\ changeQueue[Len(changeQueue)].version = documents["a"].version


\* C13: the promise of sync() never rejects; a sync() that passes its guard
\* calls transport.pull in the same step; the push half of a sync() makes its
\* first transport.push call from the point where sync() has got back the
\* settled promise of its pull(), whose finally block has run, and no pull is
\* in flight then.
C13_SyncPullsThenPushes ==
  [][/\ last'.call = "sync" =>
          /\ last'.settled # "rejected"
          /\ last'.transport \in {"none", "pull"}
          /\ last'.transport = "none" <=> SyncGuard
     /\ \A t \in Live : ((t.sync \/ t.kind = "sync") /\ Ends(t)) =>
          last'.settled # "rejected"
     /\ \A u \in BagToSet(tasks') :
          /\ (u.kind = "sync" /\ CopiesIn(u, tasks') > CopiesIn(u, tasks)) =>
               /\ \E t \in Live : t.kind = "pull" /\ t.sync /\ Moves(t, u)
               /\ last'.settled = "resolved"
               /\ ~isSyncing'
               /\ Emitted(last', "sync:completed", "pull") \cup
                    Emitted(last', "sync:failed", "pull") # {}
          /\ (/\ u.kind = "push" /\ u.sync /\ u.pc = "transport" /\ u.attempt = 1
               /\ CopiesIn(u, tasks') > CopiesIn(u, tasks)) =>
               /\ \E t \in Live : t.kind = "sync" /\ t.pc = "gap" /\ Moves(t, u)
               /\ \A t \in Live : t.kind # "pull"]_vars

\* the push half of a sync() has made its transport call, no pull being in
\* flight
C13_Witness ==
  /\ last.transport = "push"
  /\ \E u \in Live : u.kind = "push" /\ u.sync /\ u.pc = "transport" /\ u.attempt = 1
  /\ \A t \in Live : t.kind # "pull"


\* stop() has returned after a start(), start() has not been called since and
\* no start() is in flight
Stopped == ~isStarted /\ subscriptions > 0 /\ \A t \in Live : t.kind # "start"

\* the step is the callback of a timer of the engine, and it calls the transport
DebounceCalls == timeoutId /\ ~timeoutId' /\ last'.transport = "push"
DelayedSyncCalls == onlineTimeouts' < onlineTimeouts /\ last'.transport = "pull"
ProbeTickCalls ==
  /\ last'.transport = "isOnline"
  /\ \E u \in BagToSet(tasks') : u.kind = "probe" /\ CopiesIn(u, tasks') > CopiesIn(u, tasks)
TickerCalls ==
  /\ calls' = calls /\ onlineTimeouts' = onlineTimeouts
  /\ last'.call = "sync" /\ last'.transport = "pull"
  /\ BagCardinality(tasks') > BagCardinality(tasks)

\* C14: once stop() has returned, no timer of the engine calls the transport:
\* not the periodic sync ticker, not the online probe ticker, not the
\* debounced push, not the delayed sync after a reconnection.
C14_StopSilencesTimers ==
  [][Stopped => ~(TickerCalls \/ ProbeTickCalls \/ DebounceCalls \/ DelayedSyncCalls)]_vars


\* C15: start() on an engine whose isStarted is set changes nothing: no
\* ticker, probe ticker or subscription is added, the timestamps are not
\* reloaded, no task is started, the transport is not called and nothing is
\* emitted.
C15_StartIdempotent ==
  [][(isStarted /\ last'.call = "start") =>
       /\ UNCHANGED <<storeVars, trackerVars, engineVars, timerVars, timeoutId, tasks>>
       /\ last'.transport = "none" /\ last'.emitted = <<>>]_vars

\* start() has been called on an engine that a completed start() has left
\* with its tickers and its subscription installed
C15_Witness ==
  /\ last.call = "start"
  /\ isStarted /\ onlineCheckInterval /\ intervals.probe = 1 /\ subscriptions = 1
  /\ \A t \in Live : t.kind # "start"


\* the instant of the last create() call made so far
LastCall ==
  LET S == {changeQueue[i].version.timestamp : i \in DOMAIN changeQueue} \cup
           {t.doc.version.timestamp : t \in {u \in Live : u.kind = "create"}}
  IN  CHOOSE m \in S : \A n \in S : n <= m

\* the step is the callback of the debounce timer
DebounceFires == timeoutId /\ ~timeoutId'

\* C16 as stated: the debounced push fires debounceDelay after the last
\* create() call made so far, and push() is invoked by nothing else.
C16_FiresAfterLastCall ==
  [][/\ DebounceFires => clock = LastCall + DebounceDelay
     /\ last'.call = "push" => DebounceFires]_vars

\* C16, amended: the debounced push fires debounceDelay after the last
\* completion of a write (the step that records the change and calls
\* debouncePush), whatever the number of writes completed since the timer was
\* first set; it leaves no timer pending; push() is invoked by nothing else;
\* every completion of a write leaves the timer pending.
C16_FiresAfterLastWrite ==
  [][/\ DebounceFires =>
          /\ clock = changeQueue[Len(changeQueue)].localTimestamp + DebounceDelay
          /\ last'.call = "push"
     /\ last'.call = "push" => DebounceFires
     /\ Len(changeQueue') > Len(changeQueue) => timeoutId']_vars

\* the timer set by a write at instant 1 was reset by a write at instant 2
\* and has fired at instant 4, not at 3
C16_Witness ==
  /\ last.call = "push" /\ ~timeoutId
  /\ clock = 2 + DebounceDelay
  /\ Len(changeQueue) = 2
  /\ changeQueue[1].localTimestamp = 1 /\ changeQueue[2].localTimestamp = 2


ConnectionEvents(step) ==
  {e \in Range(step.emitted) : e.name \in {"connection:online", "connection:offline"}}

\* C17: a step that changes isOnline emits connection:online resp.
\* connection:offline and then state:changed; a step that leaves isOnline
\* as it is emits no connection event.
C17_ConnectionEvents ==
  [][IF isOnline' # isOnline
       THEN /\ Len(last'.emitted) = 2
            /\ last'.emitted[1] = Ev(IF isOnline' THEN "connection:online"
                                                 ELSE "connection:offline", "", 0, "")
            /\ last'.emitted[2].name = "state:changed"
       ELSE ConnectionEvents(last') = {}]_vars


\* the events of the apply and resolve steps: conflict events and the
\* SYNC_FAILED events that carry the id of a change or a conflict
StepEvent(e) ==
  \/ e.name \in {"conflict:detected", "conflict:resolved"}
  \/ e.name = "sync:failed" /\ e.id # ""

\* the events that close a pull or a push of the given type
Closing(events, type) ==
  /\ Len(events) >= 2
  /\ \A i \in 1..(Len(events) - 2) : StepEvent(events[i])
  /\ events[Len(events) - 1] \in {Ev("sync:completed", type, n, "") : n \in 0..MaxQueue + MaxRemote}
                                  \cup {Ev("sync:failed", type, 0, "")}
  /\ events[Len(events)] = StateChanged(FALSE, changeQueue')

\* C18: the step in which a pull or a push passes its guard emits
\* sync:started of its type; each later step of the operation but the last
\* emits apply and resolve events only; its last step emits apply and resolve
\* events, then one of sync:completed and sync:failed of its type, then
\* state:changed with isSyncing = false, and isSyncing is false.
C18_EventOrder ==
  [][/\ \A u \in BagToSet(tasks') :
          (/\ u.kind \in {"pull", "push"} /\ u.pc = "transport" /\ u.attempt = 1
           /\ CopiesIn(u, tasks') > CopiesIn(u, tasks)) =>
            /\ last'.emitted # <<>>
            /\ last'.emitted[Len(last'.emitted)] = Ev("sync:started", u.kind, 0, "")
     /\ \A t \in Live : (t.kind \in {"pull", "push"} /\ Ends(t)) =>
          IF \E u \in BagToSet(tasks') : u.kind = t.kind /\ Moves(t, u)
            THEN \A i \in DOMAIN last'.emitted : StepEvent(last'.emitted[i])
            ELSE Closing(last'.emitted, t.kind) /\ ~isSyncing']_vars

\* a push has ended whose conflict the resolver failed to resolve: the
\* failure that carries the id, then sync:completed, then state:changed
C18_Witness ==
  /\ Len(last.emitted) = 4
  /\ last.emitted[1] = Ev("conflict:detected", "", 0, "a")
  /\ last.emitted[2] = Ev("sync:failed", "push", 0, "a")
  /\ last.emitted[3].name = "sync:completed" /\ last.emitted[3].type = "push"
  /\ last.emitted[4] = StateChanged(FALSE, changeQueue)
  /\ ~isSyncing


\* the operation of the change record and the name of the event of a method
OperationOf(kind) == IF kind = "put" THEN "update" ELSE kind
EventOf(kind) == CASE kind = "create" -> "document:created"
                   [] kind = "delete" -> "document:deleted"
                   [] OTHER -> "document:updated"

\* C19: the last step of a create, put, update or delete, which follows its
\* store write, appends one change record of the method's operation (update
\* for put) for the document, emits the one matching document event and sets
\* the debounce timer, the store being left as written; an update or delete
\* that has found no document ends without a store write, a change record,
\* an event or a timer; no other step touches the queue or emits an event.
C19_OneRecordOneEvent ==
  [][\A t \in Live : (t.kind \in Crud /\ Ends(t)) =>
       CASE t.pc \in {"put", "deleted"} ->
              /\ Len(changeQueue') = Len(changeQueue) + 1
              /\ SubSeq(changeQueue', 1, Len(changeQueue)) = changeQueue
              /\ changeQueue'[Len(changeQueue')].operation = OperationOf(t.kind)
              /\ changeQueue'[Len(changeQueue')].id = t.doc.id
              /\ last'.emitted = <<Ev(EventOf(t.kind), "", 0, t.doc.id)>>
              /\ timeoutId'
              /\ documents' = documents
         [] t.pc = "get" /\ t.doc.id = NoDoc.id ->
              /\ UNCHANGED <<documents, changes, changeQueue, timeoutId>>
              /\ last'.emitted = <<>>
              /\ last'.settled = "resolved"
         [] OTHER ->
              /\ UNCHANGED <<changes, changeQueue, timeoutId>>
              /\ last'.emitted = <<>>]_vars

\* a delete of the document that a create has stored has ended: two records,
\* the document gone, document:deleted emitted
C19_Witness ==
  /\ last.emitted = <<Ev("document:deleted", "", 0, "a")>>
  /\ Len(changeQueue) = 2
  /\ changeQueue[1].operation = "create" /\ changeQueue[2].operation = "delete"
  /\ "a" \notin DOMAIN documents
  /\ timeoutId


\* C20: the document that resolveConflicts gets from the last-write-wins
\* resolver has the remote data and the remote version when the remote
\* timestamp is greater, or when the timestamps are equal and the remote
\* version id is greater; else the local data and the local version; its
\* version.timestamp is the greater of the two timestamps.
C20_LastWriteWins ==
  [][\A t \in Live : \A u \in BagToSet(tasks') :
       (t.pc = "resolve" /\ u.pc = "resolved" /\ Moves(t, u)) =>
         LET conflict == Head(t.conflicts)
             local == conflict.localVersion
             remote == conflict.remoteVersion
             remoteWins == \/ remote.timestamp > local.timestamp
                           \/ /\ remote.timestamp = local.timestamp
                              /\ remote.id = "b" /\ local.id = "a"
         IN  /\ u.doc.data = IF remoteWins THEN conflict.remoteData ELSE conflict.localData
             /\ u.doc.version = IF remoteWins THEN remote ELSE local
             /\ u.doc.version.timestamp >= local.timestamp
             /\ u.doc.version.timestamp >= remote.timestamp
             /\ u.doc.version.timestamp \in {local.timestamp, remote.timestamp}]_vars

\* equal timestamps, the remote version id the greater: the remote side has
\* been chosen
C20_Witness ==
  \E t \in Live :
    /\ t.pc = "resolved"
    /\ Head(t.conflicts).remoteVersion.timestamp = Head(t.conflicts).localVersion.timestamp
    /\ Head(t.conflicts).remoteVersion.id = "b" /\ Head(t.conflicts).localVersion.id = "a"
    /\ t.doc.data = RemoteData /\ t.doc.version = Head(t.conflicts).remoteVersion

\* the conflict as the other client sees it: its local side is this
\* client's remote side
Swapped(conflict) ==
  [documentId |-> conflict.documentId,
   localVersion |-> conflict.remoteVersion, remoteVersion |-> conflict.localVersion,
   localData |-> conflict.remoteData, remoteData |-> conflict.localData]

\* C21: the document that resolveConflicts gets from the last-write-wins
\* resolver for a conflict has the data and the version that the resolver
\* selects for the same two sides with local and remote exchanged.
C21_SameWinnerOnBothClients ==
  [][\A t \in Live : \A u \in BagToSet(tasks') :
       (t.pc = "resolve" /\ u.pc = "resolved" /\ Moves(t, u)) =>
         LET there == LastWriteWins(Swapped(Head(t.conflicts)))
         IN  /\ u.doc.data = there.resolvedData
             /\ u.doc.version = there.resolvedVersion]_vars


(***************************************************************************)
(* compareVersions                                                         *)
(***************************************************************************)
MaxVersions == 3       \* the versions a comparison may pick its arguments from
MaxCallsCompare == 2   \* calls of compareVersions in SpecCompare

\* a comparison that looks at the timestamps only
compareVersions_timestampOnly(a, b) ==
  IF a.timestamp < b.timestamp THEN -1
  ELSE IF a.timestamp > b.timestamp THEN 1
  ELSE 0

compareVersions(a, b) ==
  IF a.timestamp < b.timestamp THEN -1
  ELSE IF a.timestamp > b.timestamp THEN 1
  ELSE IF IdRank(a.id) < IdRank(b.id) THEN -1
  ELSE IF IdRank(a.id) > IdRank(b.id) THEN 1
  ELSE 0

\* the versions the application may have written: documents "a" and "b"
VersionInputs == [id : {"a", "b"}, timestamp : 1..MaxTs]

RECURSIVE Recorded(_)
\* the tracker after an update with each of the versions has been recorded
Recorded(versions) ==
  IF versions = <<>> THEN [changes |-> <<>>, changeQueue |-> <<>>]
  ELSE LET n == Len(versions)
           v == versions[n]
       IN  addChange(Recorded(SubSeq(versions, 1, n - 1)),
                     [id |-> v.id, operation |-> "update", data |-> "x",
                      version |-> v, localTimestamp |-> 1])

\* An engine that is not started, with MaxVersions recorded changes.
InitCompare ==
  /\ config = Plain
  /\ isConnected = FALSE
  /\ calls = MaxCallsCompare
  /\ clock = 1
  /\ documents = <<>>
  /\ lastSyncTimestamp = 0
  /\ isStarted = FALSE /\ isSyncing = FALSE /\ isOnline = FALSE
  /\ lastPullTimestamp = 0 /\ lastPushTimestamp = 0
  /\ syncInterval = FALSE /\ onlineCheckInterval = FALSE
  /\ intervals = [sync |-> 0, probe |-> 0]
  /\ timeoutId = FALSE /\ onlineTimeouts = 0 /\ subscriptions = 0
  /\ listeners = <<>> /\ handles = <<>> /\ other = NoTracker
  /\ tasks = EmptyBag
  /\ last = Step("none", "none", <<>>)
  /\ \E versions \in [1..MaxVersions -> VersionInputs] :
       /\ changes = Recorded(versions).changes
       /\ changeQueue = Recorded(versions).changeQueue

\* compareVersions(a, b) on the versions of two pending changes
CompareCall ==
  \E i \in DOMAIN changeQueue, j \in DOMAIN changeQueue :
    /\ Called
    /\ last' = [Step("compareVersions", "none", <<>>) EXCEPT
                  !.result = compareVersions(changeQueue[i].version,
                                             changeQueue[j].version),
                  !.settled = <<i, j>>]
    /\ UNCHANGED <<clock, documents, lastSyncTimestamp, changes, changeQueue,
                   isStarted, isSyncing, isOnline, lastPullTimestamp,
                   lastPushTimestamp, config, listeners, handles, other, syncInterval, onlineCheckInterval,
                   intervals, timeoutId, onlineTimeouts, subscriptions,
                   isConnected, tasks>>

NextCompare == CompareCall

SpecCompare == InitCompare /\ [][NextCompare]_vars

Pending == {changeQueue[i].version : i \in DOMAIN changeQueue}

\* C22: compareVersions returns -1, 0 or 1; a version compares 0 with
\* itself; exchanging the arguments negates the result; the order is
\* transitive; and 0 is returned only for two versions of equal timestamp
\* and equal id.
C22_TotalOrder ==
  [][last'.call = "compareVersions" =>
       /\ last'.result = compareVersions(changeQueue[last'.settled[1]].version,
                                         changeQueue[last'.settled[2]].version)
       /\ \A a \in Pending, b \in Pending, c \in Pending :
            /\ compareVersions(a, b) \in {-1, 0, 1}
            /\ compareVersions(a, a) = 0
            /\ compareVersions(a, b) = 0 - compareVersions(b, a)
            /\ (compareVersions(a, b) <= 0 /\ compareVersions(b, c) <= 0)
                 => compareVersions(a, c) <= 0
            /\ (compareVersions(a, b) < 0 /\ compareVersions(b, c) <= 0)
                 => compareVersions(a, c) < 0
            /\ (compareVersions(a, b) <= 0 /\ compareVersions(b, c) < 0)
                 => compareVersions(a, c) < 0
            /\ compareVersions(a, b) = 0
                 => (a.timestamp = b.timestamp /\ a.id = b.id)]_vars

\* two pending versions of one timestamp and different ids have been
\* compared, and a third pending version has another timestamp
C22_Witness ==
  /\ last.call = "compareVersions"
  /\ last.result = -1
  /\ LET a == changeQueue[last.settled[1]].version
         b == changeQueue[last.settled[2]].version
     IN  /\ a.timestamp = b.timestamp /\ a.id # b.id
         /\ \E c \in Pending : c.timestamp > a.timestamp


(***************************************************************************)
(* retry(operation, maxAttempts, baseDelay) by itself: one task per call,  *)
(* suspended at the await of operation() or at the await of the backoff    *)
(* timeout.  attempt is the loop variable, which counts the calls of        *)
(* operation made so far; waits are the delays handed to setTimeout; the    *)
(* value and the error of call number k are labelled k.                    *)
(***************************************************************************)
MaxAttempts == 3     \* the greatest maxAttempts retry is called with
MaxCallsRetry == 1   \* calls of retry in SpecRetry
BaseDelays == {0, 1, 2}

RECURSIVE Pow2(_)
Pow2(n) == IF n <= 0 THEN 1 ELSE 2 * Pow2(n - 1)

\* a backoff that does not grow
retryDelay_flat(baseDelay, attempt) == baseDelay

\* const delay = baseDelay * Math.pow(2, attempt - 1)
retryDelay(baseDelay, attempt) == baseDelay * Pow2(attempt - 1)

\* retry(operation, maxAttempts, baseDelay): the first operation() is called
RetryCall ==
  \E maxAttempts \in 1..MaxAttempts, baseDelay \in BaseDelays :
    /\ Called
    /\ Spawn([kind |-> "retry", pc |-> "operation", attempt |-> 1,
              maxAttempts |-> maxAttempts, baseDelay |-> baseDelay,
              since |-> 0, waits |-> <<>>])
    /\ last' = Step("retry", "none", <<>>)
    /\ UNCHANGED <<clock, storeVars, trackerVars, engineVars, timerVars, timeoutId,
                   isConnected>>

\* operation() settles: return its value, rethrow on the last try, or wait
RetryOperation(t) ==
  /\ t.kind = "retry" /\ t.pc = "operation"
  /\ \E throws \in BOOLEAN :
       IF ~throws
         THEN /\ Finish(t)
              /\ last' = [Return("retry", <<>>) EXCEPT !.result = <<"value", t.attempt>>]
         ELSE IF t.attempt = t.maxAttempts
           THEN /\ Finish(t)
                /\ last' = [Reject("retry") EXCEPT !.result = <<"error", t.attempt>>]
           ELSE /\ Goto(t, [t EXCEPT !.pc = "wait", !.since = clock,
                              !.waits = Append(t.waits, retryDelay(t.baseDelay, t.attempt))])
                /\ last' = Step("none", "none", <<>>)
  /\ UNCHANGED <<clock, storeVars, trackerVars, engineVars, timerVars, timeoutId,
                 isConnected>>
  /\ UNCHANGED calls

\* the backoff timeout fires, not before its delay is over: the next try
RetryWake(t) ==
  /\ t.kind = "retry" /\ t.pc = "wait"
  /\ clock >= t.since + t.waits[Len(t.waits)]
  /\ Goto(t, [t EXCEPT !.pc = "operation", !.attempt = t.attempt + 1])
  /\ last' = Step("none", "none", <<>>)
  /\ UNCHANGED <<clock, storeVars, trackerVars, engineVars, timerVars, timeoutId,
                 isConnected>>
  /\ UNCHANGED calls

\* An engine that is not started; time runs from 1.
InitRetry ==
  /\ Fresh
  /\ clock = 1
  /\ config = Plain
  /\ isConnected = FALSE
  /\ calls = MaxCallsRetry

NextRetry ==
  \/ TimePasses
  \/ RetryCall
  \/ \E t \in Live : RetryOperation(t)
  \/ \E t \in Live : RetryWake(t)

SpecRetry == InitRetry /\ [][NextRetry]_vars

\* C23: retry calls operation at most maxAttempts times; it returns the
\* value of the first call that does not throw and makes no call after it;
\* it rejects only when call number maxAttempts has thrown, with the error
\* of that call; the wait set after call k has thrown is
\* baseDelay * 2^(k-1), the next call is not made before it is over, and no
\* wait is set after the last call.
C23_Retry ==
  [][\A t \in Live : t.kind = "retry" =>
       /\ t.attempt <= t.maxAttempts
       /\ \A k \in DOMAIN t.waits : t.waits[k] = t.baseDelay * Pow2(k - 1)
       /\ Len(t.waits) = (IF t.pc = "wait" THEN t.attempt ELSE t.attempt - 1)
       /\ Ends(t) =>
            \/ /\ last'.settled = "resolved"
               /\ last'.result = <<"value", t.attempt>>
               /\ t.pc = "operation"
               /\ tasks' = tasks (-) SetToBag({t})
            \/ /\ last'.settled = "rejected"
               /\ last'.result = <<"error", t.maxAttempts>>
               /\ t.pc = "operation" /\ t.attempt = t.maxAttempts
               /\ Len(t.waits) = t.maxAttempts - 1
               /\ tasks' = tasks (-) SetToBag({t})
            \/ \E u \in BagToSet(tasks') :
                 /\ Moves(t, u)
                 /\ \/ /\ t.pc = "operation" /\ u.pc = "wait"
                       /\ t.attempt < t.maxAttempts
                       /\ u.attempt = t.attempt
                    \/ /\ t.pc = "wait" /\ u.pc = "operation"
                       /\ u.attempt = t.attempt + 1
                       /\ clock >= t.since + t.baseDelay * Pow2(t.attempt - 1)]_vars

\* all three calls of a retry with maxAttempts 3 and baseDelay 1 have thrown
C23_Witness ==
  /\ last.call = "retry" /\ last.settled = "rejected"
  /\ last.result = <<"error", 3>>
  /\ clock = 4

(***************************************************************************)
(* SyncEventEmitter.  listeners maps an event that has a slot to its Set   *)
(* of listeners, a sequence without repetition in insertion order.  Each   *)
(* on() returns a new closure over (event, listener): handles holds them   *)
(* in the order of their creation, with the number of times the            *)
(* application has called each.                                            *)
(***************************************************************************)
MaxCallsEmitter == 4   \* calls of on, off, emit and handles in SpecEmitter
EventNames == {"sync:completed", "state:changed"}
Listeners == {"f", "g"}
\* the listener that throws when it is called
Throws(listener) == listener = "g"

\* Set.prototype.add
SetAdd(set, x) == IF x \in Range(set) THEN set ELSE Append(set, x)
\* Set.prototype.delete
SetDelete(set, x) == SelectSeq(set, LAMBDA y : y # x)

on(ls, event, listener) ==
  LET slot == IF event \in DOMAIN ls THEN ls[event] ELSE <<>>
  IN  MapSet(ls, event, SetAdd(slot, listener))

\* an off that frees the slot of the event with every listener in it
off_wholeSlot(ls, event, listener) ==
  IF event \notin DOMAIN ls THEN ls ELSE MapDelete(ls, event)

off(ls, event, listener) ==
  IF event \notin DOMAIN ls THEN ls
  ELSE LET rest == SetDelete(ls[event], listener)
       IN  IF rest = <<>> THEN MapDelete(ls, event) ELSE MapSet(ls, event, rest)

RECURSIVE forEach_unguarded(_)
\* a forEach without the try/catch: the first exception ends it
forEach_unguarded(set) ==
  IF set = <<>> THEN [called |-> <<>>, settled |-> "resolved"]
  ELSE IF Throws(Head(set)) THEN [called |-> <<Head(set)>>, settled |-> "rejected"]
  ELSE LET rest == forEach_unguarded(Tail(set))
       IN  [called |-> <<Head(set)>> \o rest.called, settled |-> rest.settled]

RECURSIVE forEach(_)
\* eventListeners.forEach(listener => { try { listener(data) } catch { log } })
forEach(set) ==
  IF set = <<>> THEN [called |-> <<>>, settled |-> "resolved"]
  ELSE LET rest == forEach(Tail(set))
       IN  [called |-> <<Head(set)>> \o rest.called, settled |-> rest.settled]

\* emit(event, data): the listeners it calls, in order, and how it ends
emit(ls, event) ==
  IF event \in DOMAIN ls THEN forEach(ls[event])
  ELSE [called |-> <<>>, settled |-> "resolved"]

emitterRest == <<clock, storeVars, trackerVars, engineVars, config, other, syncInterval,
                 onlineCheckInterval, intervals, onlineTimeouts, subscriptions,
                 timeoutId, isConnected, tasks>>

OnCall ==
  \E event \in EventNames, listener \in Listeners :
    /\ Called
    /\ listeners' = on(listeners, event, listener)
    /\ handles' = Append(handles, [event |-> event, listener |-> listener, called |-> 0])
    /\ last' = [Return("on", <<>>) EXCEPT !.result = [event |-> event, listener |-> listener]]
    /\ UNCHANGED emitterRest

OffCall ==
  \E event \in EventNames, listener \in Listeners :
    /\ Called
    /\ listeners' = off(listeners, event, listener)
    /\ last' = [Return("off", <<>>) EXCEPT !.result = [event |-> event, listener |-> listener]]
    /\ UNCHANGED handles
    /\ UNCHANGED emitterRest

\* the application calls a handle it got from on(): this.off(event, listener)
UnsubscribeCall ==
  \E i \in DOMAIN handles :
    /\ Called
    /\ listeners' = off(listeners, handles[i].event, handles[i].listener)
    /\ handles' = [handles EXCEPT ![i].called = @ + 1]
    /\ last' = [Return("unsubscribe", <<>>) EXCEPT !.result = [handle |-> i]]
    /\ UNCHANGED emitterRest

EmitCall ==
  \E event \in EventNames :
    /\ Called
    /\ LET done == emit(listeners, event)
       IN  last' = [Return("emit", <<>>) EXCEPT
                      !.settled = done.settled,
                      !.result = [event |-> event, called |-> done.called]]
    /\ UNCHANGED emitterVars
    /\ UNCHANGED emitterRest

\* A constructed engine; the application registers, removes and emits.
InitEmitter ==
  /\ Fresh
  /\ clock = 1
  /\ config = Plain
  /\ isConnected = FALSE
  /\ calls = MaxCallsEmitter

NextEmitter ==
  \/ OnCall
  \/ OffCall
  \/ UnsubscribeCall
  \/ EmitCall

SpecEmitter == InitEmitter /\ [][NextEmitter]_vars

\* the listeners registered for an event, in the order of their registration
Registered(event) == IF event \in DOMAIN listeners THEN listeners[event] ELSE <<>>

\* C24: emit(event, payload) returns normally after calling the listeners
\* registered for the event, each once, in registration order, and no other
\* listener; a listener that on() registers is put behind those registered
\* before it, and registering it again does not move it.
C24_EmitCallsRegistered ==
  [][/\ last'.call = "emit" =>
          /\ last'.settled = "resolved"
          /\ last'.result.called = Registered(last'.result.event)
          /\ \A i, j \in DOMAIN last'.result.called :
               last'.result.called[i] = last'.result.called[j] => i = j
          /\ listeners' = listeners
     /\ last'.call = "on" =>
          LET event == last'.result.event
              listener == last'.result.listener
              before == Registered(event)
          IN  /\ \A e \in EventNames \ {event} :
                   (e \in DOMAIN listeners') = (e \in DOMAIN listeners)
                   /\ (e \in DOMAIN listeners => listeners'[e] = listeners[e])
              /\ listeners'[event] = (IF listener \in Range(before) THEN before
                                      ELSE before \o <<listener>>)]_vars

\* emit has called the throwing listener and then the one registered after
\* it, while the other event has a listener too
C24_Witness ==
  /\ last.call = "emit"
  /\ last.result.called = <<"g", "f">>
  /\ \E e \in DOMAIN listeners : e # last.result.event


\* the listeners registered for an event after the step
RegisteredNext(event) == IF event \in DOMAIN listeners' THEN listeners'[event] ELSE <<>>

\* the handle that the last step has called, as it was before the call
CalledHandle == handles[last'.result.handle]

\* the listeners of every event after listener has left those of event
Without(event, listener) ==
  [e \in EventNames |-> IF e = event THEN SetDelete(Registered(e), listener)
                        ELSE Registered(e)]

\* C25 as stated: the first call of a handle removes its listener from its
\* event, and every later call of the handle leaves the registered
\* listeners as they are.
C25_LaterCallsNoEffect ==
  [][last'.call = "unsubscribe" =>
       IF CalledHandle.called = 0
         THEN CalledHandle.listener \notin Range(RegisteredNext(CalledHandle.event))
         ELSE listeners' = listeners]_vars

\* C25: every call of a handle leaves the listeners of its event without
\* its listener and all other registrations as they were, so that a call
\* that follows another call of the handle directly changes nothing; a
\* later call changes the registered listeners only if on() has been called
\* for the same event and listener after the handle was created.
C25_LaterCallsRemoveReRegistration ==
  [][last'.call = "unsubscribe" =>
       /\ \A e \in EventNames :
            RegisteredNext(e) = Without(CalledHandle.event, CalledHandle.listener)[e]
       /\ \A e \in DOMAIN listeners' : listeners'[e] # <<>>
       /\ off(listeners', CalledHandle.event, CalledHandle.listener) = listeners'
       /\ (CalledHandle.called > 0 /\ listeners' # listeners) =>
            \E j \in DOMAIN handles :
              /\ j > last'.result.handle
              /\ handles[j].event = CalledHandle.event
              /\ handles[j].listener = CalledHandle.listener]_vars

\* a handle has been called a second time while the other listener stays
\* registered for its event
C25_Witness ==
  /\ last.call = "unsubscribe"
  /\ handles[last.result.handle].called = 2
  /\ handles[last.result.handle].event \in DOMAIN listeners


(***************************************************************************)
(* ChangeTracker by itself: the engine's tracker (changes, changeQueue)    *)
(* and a second one that importState fills.  sameArray says that the       *)
(* second tracker's changeQueue is the array object of the first, so that  *)
(* a push into one shows in the other.                                     *)
(***************************************************************************)
MaxCallsTracker == 3   \* calls of the tracker's methods in SpecTracker
MaxPending == 3        \* records in a queue of SpecTracker
TrackerIds == {"a", "b"}

NoChange == [id |-> "none", operation |-> "undefined", data |-> "null",
             version |-> NoDoc.version, localTimestamp |-> 0]

getLatestChange(tr, id) == IF id \in DOMAIN tr.changes THEN tr.changes[id] ELSE NoChange

RECURSIVE mergeChanges(_, _)
mergeChanges(tr, otherChanges) ==
  IF otherChanges = <<>> THEN tr
  ELSE LET change == Head(otherChanges)
           existingChange == getLatestChange(tr, change.id)
           newer == \/ change.id \notin DOMAIN tr.changes
                    \/ change.version.timestamp > existingChange.version.timestamp
       IN  mergeChanges(IF newer THEN addChange(tr, change) ELSE tr, Tail(otherChanges))

\* exportState(): Object.fromEntries(this.changes) and a copy of the queue
exportState(tr) == [changes |-> tr.changes, queue |-> tr.changeQueue]

\* an import that restores the queue and leaves the index empty
importState_queueOnly(state) ==
  [constructed |-> TRUE, changes |-> <<>>, changeQueue |-> state.queue,
   sameArray |-> FALSE]

\* importState(state): new Map(Object.entries(state.changes)) and
\* [...state.queue], a new array
importState(state) ==
  [constructed |-> TRUE, changes |-> state.changes, changeQueue |-> state.queue,
   sameArray |-> FALSE]

\* the records that another tracker or a persisted state may hand in
ExternalChanges ==
  {[id |-> v.id, operation |-> "update", data |-> RemoteData, version |-> v,
    localTimestamp |-> l] : v \in [id : TrackerIds, timestamp : Clock], l \in Clock}
Externals == {<<c>> : c \in ExternalChanges}
               \cup {<<c, d>> : c \in ExternalChanges, d \in ExternalChanges}

\* what q has got at its end since it was p
Pushed(p, q) == SubSeq(q, Len(p) + 1, Len(q))

trackerRest == <<clock, storeVars, engineVars, config, emitterVars, syncInterval,
                 onlineCheckInterval, intervals, onlineTimeouts, subscriptions,
                 timeoutId, isConnected, tasks>>

\* recordUpdate(document) on the first or on the second tracker
TrackerRecord ==
  \E which \in {"first", "second"}, id \in TrackerIds :
    LET document == createDocument("x", id)
    IN  /\ Called
        /\ IF which = "first"
             THEN LET tr == recordUpdate(Tracker, document)
                  IN  /\ Len(changeQueue) < MaxPending
                      /\ other.sameArray => Len(other.changeQueue) < MaxPending
                      /\ SetTracker(tr)
                      /\ other' = IF other.sameArray
                                    THEN [other EXCEPT !.changeQueue =
                                            @ \o Pushed(changeQueue, tr.changeQueue)]
                                    ELSE other
             ELSE LET tr == recordUpdate(other, document)
                  IN  /\ other.constructed
                      /\ Len(other.changeQueue) < MaxPending
                      /\ other' = [other EXCEPT !.changes = tr.changes,
                                                !.changeQueue = tr.changeQueue]
                      /\ changeQueue' = IF other.sameArray
                                          THEN changeQueue \o Pushed(other.changeQueue,
                                                                      tr.changeQueue)
                                          ELSE changeQueue
                      /\ UNCHANGED changes
        /\ last' = [Return("recordUpdate", <<>>) EXCEPT !.result = [which |-> which]]
        /\ UNCHANGED trackerRest

\* clearChangesBefore(timestamp) on the first tracker: filter makes a new array
TrackerClear ==
  \E timestamp \in 0..(MaxTs + 1) :
    LET tr == clearChangesBefore(Tracker, timestamp)
    IN  /\ Called
        /\ SetTracker(tr)
        /\ other' = [other EXCEPT !.sameArray = FALSE]
        /\ last' = [Return("clearChangesBefore", <<>>) EXCEPT
                      !.result = [cutoff |-> timestamp,
                                  removed |-> Len(changeQueue) - Len(tr.changeQueue)]]
        /\ UNCHANGED trackerRest

\* mergeChanges(otherChanges) on the first tracker
TrackerMerge ==
  \E otherChanges \in Externals :
    LET tr == mergeChanges(Tracker, otherChanges)
    IN  /\ Called
        /\ Len(changeQueue) + Len(otherChanges) <= MaxPending
        /\ SetTracker(tr)
        /\ other' = IF other.sameArray
                      THEN [other EXCEPT !.changeQueue =
                              @ \o Pushed(changeQueue, tr.changeQueue)]
                      ELSE other
        /\ last' = [Return("mergeChanges", <<>>) EXCEPT !.result = otherChanges]
        /\ UNCHANGED trackerRest

\* new ChangeTracker().importState(tracker.exportState())
TrackerRestore ==
  /\ Called
  /\ other' = importState(exportState(Tracker))
  /\ last' = Return("importState", <<>>)
  /\ UNCHANGED trackerVars
  /\ UNCHANGED trackerRest

\* A constructed engine; the application works on the trackers.
InitTracker ==
  /\ Fresh
  /\ config = Plain
  /\ isConnected = FALSE
  /\ calls = MaxCallsTracker

NextTracker ==
  \/ ClockChange
  \/ TrackerRecord
  \/ TrackerClear
  \/ TrackerMerge
  \/ TrackerRestore

SpecTracker == InitTracker /\ [][NextTracker]_vars

\* C26: clearChangesBefore(cutoff) leaves in the queue exactly the records
\* with localTimestamp >= cutoff, in their order, and in the index exactly
\* the entries with localTimestamp >= cutoff, unchanged.
C26_ClearKeepsFromCutoff ==
  [][last'.call = "clearChangesBefore" =>
       LET cutoff == last'.result.cutoff
           kept == {i \in DOMAIN changeQueue : changeQueue[i].localTimestamp >= cutoff}
       IN  /\ Len(changeQueue') = Cardinality(kept)
           /\ \A i \in DOMAIN changeQueue' : changeQueue'[i].localTimestamp >= cutoff
           /\ \E f \in [DOMAIN changeQueue' -> kept] :
                /\ \A i \in DOMAIN changeQueue' : changeQueue'[i] = changeQueue[f[i]]
                /\ \A i, j \in DOMAIN changeQueue' : i < j => f[i] < f[j]
           /\ DOMAIN changes' =
                {id \in DOMAIN changes : changes[id].localTimestamp >= cutoff}
           /\ \A id \in DOMAIN changes' : changes'[id] = changes[id]]_vars

\* a clear has removed one record and has kept one made at the cutoff itself
C26_Witness ==
  /\ last.call = "clearChangesBefore"
  /\ last.result.removed = 1
  /\ Len(changeQueue) = 1
  /\ changeQueue[1].localTimestamp = last.result.cutoff
  /\ DOMAIN changes # {}


\* C27 as stated: mergeChanges(external) appends every external record to
\* the queue, in order, and sets the index entry of an id to the external
\* record only when the record's version.timestamp exceeds that of the entry
\* the index holds for the id, or the index holds none.
C27_MergeAppendsAll ==
  [][last'.call = "mergeChanges" =>
       /\ changeQueue' = changeQueue \o last'.result
       /\ \A id \in DOMAIN changes' :
            \/ id \in DOMAIN changes /\ changes'[id] = changes[id]
            \/ \E i \in DOMAIN last'.result :
                 /\ changes'[id] = last'.result[i]
                 /\ id \in DOMAIN changes =>
                      last'.result[i].version.timestamp > changes[id].version.timestamp]_vars

AfterPushSuccess(t) ==
  /\ t.kind = "push"
  /\ Ends(t) \/ \E u \in BagToSet(tasks') : Moves(t, u)
  /\ IF t.pc = "transport" THEN last'.result = "ok" ELSE t.pc # "backoff"

\* C29: the queue loses records only in a step of a push whose
\* transport.push has returned success, and no more records than the batch
\* of that push held; the changes that were pending behind the batch when
\* the push started are all still pending after that step, in their order.
C29_OnlyPushedLeave ==
  [][Len(changeQueue') < Len(changeQueue) =>
       \E t \in Live :
         /\ AfterPushSuccess(t)
         /\ Len(changeQueue) - Len(changeQueue') <= Len(t.batch)
         /\ Occurs(SubSeq(t.entry.queue, Len(t.batch) + 1, Len(t.entry.queue)),
                   changeQueue')]_vars

\* C30: handleCreateOrUpdateChange for a remote create or update of id d
\* with data, once store.get(d) has returned: if the document it returned
\* has a version.timestamp strictly greater than the remote one, the step
\* goes into resolveConflicts with the one conflict of the two sides and
\* writes nothing; otherwise it emits no conflict event, records no change,
\* and the store then holds {id d, data and version of the remote change,
\* deleted false}, unless store.put rejects, which the loop reports as a
\* failure of that change.
C30_RemoteCreateOrUpdate ==
  [][\A t \in Live : \A u \in BagToSet(tasks') :
       (t.pc = "got" /\ Moves(t, u)) =>
         LET change == Head(t.todo)
             existing == t.doc
             document == [id |-> change.id, data |-> change.data,
                          version |-> change.version, deleted |-> "false"]
         IN  /\ change.operation \in {"create", "update"} /\ change.data # "null"
             /\ IF existing # NoDoc
                   /\ existing.version.timestamp > change.version.timestamp
                  THEN /\ u.pc = "resolve"
                       /\ u.conflicts =
                            <<[documentId |-> change.id,
                               localVersion |-> existing.version,
                               remoteVersion |-> change.version,
                               localData |-> existing.data,
                               remoteData |-> change.data]>>
                       /\ documents' = documents
                       /\ last'.emitted = <<>>
                  ELSE /\ u.pc = "apply" /\ u.todo = Tail(t.todo)
                       /\ UNCHANGED trackerVars
                       /\ \/ /\ documents' = MapSet(documents, change.id, document)
                             /\ last'.emitted = <<>>
                          \/ /\ documents' = documents
                             /\ last'.emitted = <<ApplyFailure(change)>>
                             /\ config.store = "rejecting"]_vars

\* the remote document has been written over a stored document of the same
\* version.timestamp, and the pull is through its one change
C30_Witness ==
  /\ "a" \in DOMAIN documents
  /\ documents["a"].deleted = "false"
  /\ documents["a"].data = RemoteData
  /\ documents["a"].version.timestamp = 2
  /\ \E t \in Live : t.kind = "pull" /\ t.pc = "apply" /\ t.todo = <<>> /\ Len(t.batch) = 1
  /\ \E i \in DOMAIN changeQueue : changeQueue[i].version.timestamp = 2


(***************************************************************************)
(* Local updates of a stored document while a pull or a push is in flight. *)
(***************************************************************************)
MaxCallsRace == 3   \* calls of update, pull and push in SpecRace

\* A running engine that holds document "a", written and pushed before; the
\* server has other clients.
InitRace ==
  /\ config = [Plain EXCEPT !.remote = TRUE]
  /\ isConnected = TRUE
  /\ calls = MaxCallsRace
  /\ clock \in Clock
  /\ documents = MapSet(<<>>, "a", [id |-> "a", data |-> "x",
                                    version |-> createVersion("a", 1),
                                    deleted |-> "undefined"])
  /\ lastSyncTimestamp = 1
  /\ changes = <<>>
  /\ changeQueue = <<>>
  /\ isStarted = TRUE /\ isSyncing = FALSE /\ isOnline = TRUE
  /\ lastPullTimestamp = 1 /\ lastPushTimestamp = 1
  /\ syncInterval = FALSE /\ onlineCheckInterval = TRUE
  /\ intervals = [sync |-> 0, probe |-> 1]
  /\ timeoutId = FALSE /\ onlineTimeouts = 0 /\ subscriptions = 1
  /\ listeners = <<>> /\ handles = <<>> /\ other = NoTracker
  /\ tasks = EmptyBag
  /\ last = Return("push", <<>>)

NextRace ==
  \/ ClockChange
  \/ UpdateCall
  \/ PullCall
  \/ PushCall
  \/ \E t \in Live : UpdatePut(t)
  \/ \E t \in Live : UpdateDone(t)
  \/ \E t \in Live : PullResult(t)
  \/ \E t \in Live : ApplyNext(t)
  \/ \E t \in Live : ApplyGot(t)
  \/ \E t \in Live : PullPersisted(t)
  \/ \E t \in Live : PushResult(t)
  \/ \E t \in Live : PushPersisted(t)
  \/ \E t \in Live : ResolveConflict(t)
  \/ \E t \in Live : ResolvePut(t)
  \/ \E t \in Live : ResolveRecord(t)

SpecRace == InitRace /\ [][NextRace]_vars

\* C31: when handleCreateOrUpdateChange comes to its write for a remote
\* change of id d and the store holds a document of d with a
\* version.timestamp strictly greater than the remote one, the step goes
\* into conflict resolution and leaves the store as it is.
C31_NewerLocalNotReplaced ==
  [][\A t \in Live : \A u \in BagToSet(tasks') :
       (t.pc = "got" /\ Moves(t, u)) =>
         LET change == Head(t.todo)
         IN  (/\ change.id \in DOMAIN documents
              /\ documents[change.id].version.timestamp > change.version.timestamp)
               => /\ u.pc = "resolve"
                  /\ documents' = documents]_vars

\* C32: the document that resolveConflicts writes to the store has no
\* smaller version.timestamp than the document of its id that the store
\* holds at the write.
C32_ResolutionKeepsMonotonic ==
  [][\A t \in Live : \A u \in BagToSet(tasks') :
       (t.pc = "resolved" /\ u.pc = "resolvedPut" /\ Moves(t, u)) =>
         (t.doc.id \in DOMAIN documents =>
            documents'[t.doc.id].version.timestamp
              >= documents[t.doc.id].version.timestamp)]_vars


\* the queue holds an Update record that carries the document
PendingUpdateOf(queue, doc) ==
  \E i \in DOMAIN queue : /\ queue[i].operation = "update"
                          /\ queue[i].id = doc.id
                          /\ queue[i].version = doc.version
                          /\ queue[i].data = doc.data

\* C33: when a successful push has resolved the last conflict of its result
\* and gone on through the clearing of the pushed changes, an Update change
\* that carries the resolved document is pending, so that the next push
\* sends the resolution.
C33_ResolutionStaysPending ==
  [][\A t \in Live :
       (/\ t.kind = "push" /\ t.pc = "resolvedPut"
        /\ Len(t.conflicts) = 1
        /\ Ends(t) \/ \E u \in BagToSet(tasks') : Moves(t, u))
         => PendingUpdateOf(changeQueue', t.doc)]_vars


\* The awaited calls of a pull or push settle (the transport, the store and
\* the resolver answer or fail, the backoff timer of retry fires) and the
\* task resumes.
FairSync ==
  /\ WF_vars(\E t \in Live : SyncPush(t))
  /\ WF_vars(\E t \in Live : Backoff(t))
  /\ WF_vars(\E t \in Live : PullResult(t))
  /\ WF_vars(\E t \in Live : ApplyNext(t))
  /\ WF_vars(\E t \in Live : ApplyGot(t))
  /\ WF_vars(\E t \in Live : PullPersisted(t))
  /\ WF_vars(\E t \in Live : PushResult(t))
  /\ WF_vars(\E t \in Live : PushPersisted(t))
  /\ WF_vars(\E t \in Live : ResolveConflict(t))
  /\ WF_vars(\E t \in Live : ResolvePut(t))
  /\ WF_vars(\E t \in Live : ResolveRecord(t))

\* sync(), pull and push of a running engine whose collaborators may fail
\* but always answer.
SpecGuard == InitSync /\ [][NextSync]_vars /\ FairSync

\* C34: isSyncing is true exactly while a pull or push is in flight: it
\* becomes true only in the step that starts one, every step that ends a
\* pull or push (success, transport failure, store failure, resolver
\* failure) sets it to false and reports it in state:changed, and while the
\* awaited calls settle the guard always opens again.
C34_GuardReopens ==
  /\ [](isSyncing <=> InFlight = 1)
  /\ [][\A t \in Live :
          (t.kind \in {"pull", "push"} /\ Ends(t)
           /\ ~\E u \in BagToSet(tasks') : u.kind \in {"pull", "push"} /\ Moves(t, u))
            => /\ isSyncing /\ ~isSyncing'
               /\ last'.emitted # <<>>
               /\ last'.emitted[Len(last'.emitted)] = StateChanged(FALSE, changeQueue')]_vars
  /\ [][(~isSyncing /\ isSyncing') =>
          /\ Emitted(last', "sync:started", "pull") \cup Emitted(last', "sync:started", "push") # {}
          /\ \E u \in BagToSet(tasks') : u.kind \in {"pull", "push"}
                                          /\ u.pc = "transport" /\ u \notin Live]_vars
  /\ isSyncing ~> ~isSyncing

\* a push has ended on a failure and has opened the guard
C34_Witness ==
  /\ ~isSyncing /\ InFlight = 0
  /\ Emitted(last, "sync:failed", "push") # {}
  /\ last.emitted[Len(last.emitted)] = StateChanged(FALSE, changeQueue)


MaxCallsBatch == 3   \* calls of create, pull and push in SpecBatch

\* A running engine with batchSize MaxBatch and two document ids, a server
\* whose answers hold up to MaxBatch changes or conflicts, a store that may
\* reject and a resolver that may fail.
InitBatch ==
  /\ config = [Hostile EXCEPT !.transport = "reporting", !.batchSize = MaxBatch,
                              !.answers = MaxBatch, !.ids = {"a", "b"}]
  /\ isConnected = TRUE
  /\ calls = MaxCallsBatch
  /\ Running

NextBatch ==
  \/ CreateCall
  \/ PullCall
  \/ PushCall
  \/ \E t \in Live : CreateDone(t)
  \/ \E t \in Live : PullResult(t)
  \/ \E t \in Live : ApplyNext(t)
  \/ \E t \in Live : ApplyGot(t)
  \/ \E t \in Live : PullPersisted(t)
  \/ \E t \in Live : PushResult(t)
  \/ \E t \in Live : PushPersisted(t)
  \/ \E t \in Live : ResolveConflict(t)
  \/ \E t \in Live : ResolvePut(t)
  \/ \E t \in Live : ResolveRecord(t)

SpecBatch == InitBatch /\ [][NextBatch]_vars


\* the pcs of a task inside applyRemoteChanges
ApplyPcs == {"apply", "got", "resolve", "resolved", "resolvedPut"}

IsSuffix(p, q) == Len(p) <= Len(q) /\ SubSeq(q, Len(q) - Len(p) + 1, Len(q)) = p

\* C35: when the store rejects while one change of a pulled batch is
\* applied, the step emits SYNC_FAILED{type: PULL} naming the id of that
\* change and nothing else, leaves the store as it is and goes on with the
\* rest of the batch; the loop takes the changes one at a time in the order
\* of the transport's result and the pull leaves it only when none is left.
C35_FailedChangeSkipped ==
  [][\A t \in Live :
       (t.kind = "pull" /\ t.pc \in ApplyPcs) =>
         /\ IsSuffix(t.todo, t.batch)
         /\ \A u \in BagToSet(tasks') :
              Moves(t, u) =>
                /\ u.todo \in {t.todo} \cup (IF t.todo = <<>> THEN {} ELSE {Tail(t.todo)})
                /\ (u.kind # "pull" \/ u.pc \notin ApplyPcs) => t.todo = <<>>
                /\ (t.pc \in {"apply", "got"} /\ t.todo # <<>> /\ last'.emitted # <<>>) =>
                     /\ last'.emitted = <<Ev("sync:failed", "pull", 0, Head(t.todo).id)>>
                     /\ documents' = documents
                     /\ u.kind = "pull" /\ u.pc = "apply"
                     /\ u.todo = Tail(t.todo)
                     /\ u.batch = t.batch
         /\ (Ends(t) /\ ~\E u \in BagToSet(tasks') : Moves(t, u)) => t.todo = <<>>]_vars

\* the update of "a" that came first in the batch was rejected by the store
\* and the update of "b" behind it has been applied
C35_Witness ==
  \E t \in Live :
    /\ t.kind = "pull" /\ t.pc = "apply" /\ t.todo = <<>>
    /\ Len(t.batch) = 2
    /\ t.batch[1].id = "a" /\ t.batch[1].operation = "update"
    /\ t.batch[2].id = "b" /\ t.batch[2].operation = "update"
    /\ "a" \notin DOMAIN documents
    /\ "b" \in DOMAIN documents /\ documents["b"].data = RemoteData
    /\ documents["b"].version = t.batch[2].version


\* C36: when the resolver fails for a conflict, the step emits
\* conflict:detected and then SYNC_FAILED{type: PUSH} naming the document
\* id, emits no conflict:resolved, writes nothing to the store and adds no
\* record to the tracker; with conflicts left the loop goes on with the
\* next one and the tracker is as it was.
C36_ResolverFailureSkipsOne ==
  [][\A t \in Live :
       (/\ t.pc = "resolve"
        /\ Ends(t)
        /\ ~\E u \in BagToSet(tasks') : u.pc = "resolved" /\ Moves(t, u)) =>
         LET conflict == Head(t.conflicts) IN
         /\ IsPrefix(<<Ev("conflict:detected", "", 0, conflict.documentId),
                       Ev("sync:failed", "push", 0, conflict.documentId)>>, last'.emitted)
         /\ \A e \in Range(last'.emitted) : e.name # "conflict:resolved"
         /\ documents' = documents
         /\ Range(changeQueue') \subseteq Range(changeQueue)
         /\ Len(changeQueue') <= Len(changeQueue)
         /\ \A id \in DOMAIN changes' : id \in DOMAIN changes /\ changes'[id] = changes[id]
         /\ Tail(t.conflicts) # <<>> =>
              /\ changeQueue' = changeQueue /\ changes' = changes
              /\ \E u \in BagToSet(tasks') :
                   /\ Moves(t, u)
                   /\ u.kind = t.kind /\ u.pc = "resolve"
                   /\ u.conflicts = Tail(t.conflicts)]_vars

\* the resolver has failed for the conflict of "a", the first of two that
\* the push result held; the conflict of "b" is the next
C36_Witness ==
  \E t \in Live :
    /\ t.kind = "push" /\ t.pc = "resolve"
    /\ Len(t.batch) = 2 /\ Len(t.conflicts) = 1
    /\ t.batch[1].id = "a" /\ t.conflicts[1].documentId = "b"
    /\ last.emitted = <<Ev("conflict:detected", "", 0, "a"),
                        Ev("sync:failed", "push", 0, "a")>>


\* C37: a remote Delete of id d that the store accepts removes d from the
\* store and nothing else, whatever version the store holds and whether
\* or not changes of d are pending; the step emits no event (no
\* conflict:detected), does not go to the resolver and leaves the tracker as
\* it is.
C37_RemoteDeleteUnconditional ==
  [][\A t \in Live : \A u \in BagToSet(tasks') :
       (/\ t.kind \in {"pull", "remote"} /\ t.pc = "apply" /\ t.todo # <<>>
        /\ Head(t.todo).operation = "delete"
        /\ Moves(t, u)) =>
         /\ u.pc = "apply" /\ u.todo = Tail(t.todo) /\ u.conflicts = <<>>
         /\ changeQueue' = changeQueue /\ changes' = changes
         /\ \A e \in Range(last'.emitted) : e.name # "conflict:detected"
         /\ last'.emitted = <<>> =>
              /\ Head(t.todo).id \notin DOMAIN documents'
              /\ \A id \in DOMAIN documents \ {Head(t.todo).id} :
                   id \in DOMAIN documents' /\ documents'[id] = documents[id]]_vars

\* a remote Delete of "a" has removed a document that was newer than the
\* remote version while its Create was still pending
C37_Witness ==
  \E t \in Live :
    /\ t.kind = "pull" /\ t.pc = "apply" /\ t.todo = <<>>
    /\ Len(t.batch) = 1 /\ t.batch[1].operation = "delete" /\ t.batch[1].id = "a"
    /\ last.emitted = <<>>
    /\ "a" \notin DOMAIN documents
    /\ \E i \in DOMAIN changeQueue :
         /\ changeQueue[i].id = "a" /\ changeQueue[i].operation = "create"
         /\ changeQueue[i].version.timestamp > t.batch[1].version.timestamp


MaxCallsRemote == 3   \* calls of create and stop, and real-time batches, in SpecRemote

\* A running engine with one real-time subscription; the transport delivers
\* batches of other clients' changes, the application writes and stops the
\* engine.
InitRemote ==
  /\ config = [Hostile EXCEPT !.transport = "reporting"]
  /\ isConnected = TRUE
  /\ calls = MaxCallsRemote
  /\ Running

NextRemote ==
  \/ ClockChange
  \/ CreateCall
  \/ StopCall
  \/ RemoteDeliver
  \/ \E t \in Live : CreateDone(t)
  \/ \E t \in Live : ApplyNext(t)
  \/ \E t \in Live : ApplyGot(t)
  \/ \E t \in Live : ResolveConflict(t)
  \/ \E t \in Live : ResolvePut(t)
  \/ \E t \in Live : ResolveRecord(t)

SpecRemote == InitRemote /\ [][NextRemote]_vars

RemoteTasks == {t \in Live : t.kind = "remote"}

\* C38: a batch that the transport hands to the real-time callback starts
\* one run of the apply loop over the batch when the engine is Started and
\* nothing when it is Stopped; no step of that handling calls the transport,
\* schedules the debounced push or changes lastPullTimestamp,
\* lastPushTimestamp, the store's timestamp or isSyncing.
C38_RealTimeBatch ==
  /\ [][last'.call = "onRemoteChange" =>
          /\ IF isStarted
               THEN \E cs \in RemoteBatches \ {<<>>} :
                      tasks' = tasks (+) SetToBag({[Task0 EXCEPT !.kind = "remote",
                                                       !.pc = "apply", !.todo = cs]})
               ELSE tasks' = tasks
          /\ last'.transport = "none" /\ last'.emitted = <<>>
          /\ UNCHANGED <<documents, changes, changeQueue, timeoutId, isSyncing,
                         lastPullTimestamp, lastPushTimestamp, lastSyncTimestamp>>]_vars
  /\ [][\A t \in RemoteTasks :
          Ends(t) =>
            /\ last'.transport = "none"
            /\ \A u \in BagToSet(tasks') : Moves(t, u) => u.kind = "remote" /\ u.pc \in ApplyPcs
            /\ UNCHANGED <<timeoutId, isSyncing, lastPullTimestamp, lastPushTimestamp,
                           lastSyncTimestamp>>]_vars

\* a first batch was applied while the engine was Started; the engine was
\* stopped and the batch delivered then is ignored
C38_Witness ==
  /\ ~isStarted
  /\ last.call = "onRemoteChange"
  /\ RemoteTasks = {}
  /\ "a" \in DOMAIN documents /\ documents["a"].data = RemoteData


MaxCallsLifecycle == 4   \* calls of start and stop, and real-time batches, in SpecLifecycle

\* The engine from construction on, with a periodic sync configured and a
\* transport that is not reachable but delivers real-time batches: start()
\* and stop() in any order, also while a start() is in progress.
InitLifecycle ==
  /\ config = [Plain EXCEPT !.periodic = TRUE, !.remote = TRUE]
  /\ isConnected = FALSE
  /\ calls = MaxCallsLifecycle
  /\ Fresh

NextLifecycle ==
  \/ StartCall
  \/ StopCall
  \/ RemoteDeliver
  \/ \E t \in Live : StartInit(t)
  \/ \E t \in Live : ProbeResult(t)
  \/ \E t \in Live : StartInstall(t)
  \/ \E t \in Live : ApplyNext(t)
  \/ \E t \in Live : ApplyGot(t)
  \/ \E t \in Live : ResolveConflict(t)
  \/ \E t \in Live : ResolvePut(t)
  \/ \E t \in Live : ResolveRecord(t)

SpecLifecycle == InitLifecycle /\ [][NextLifecycle]_vars

\* C39: whatever start() and stop() calls have been made, the transport
\* holds at most one real-time callback of the engine, at most one periodic
\* sync ticker and one online-probe ticker are installed, none is installed
\* while the engine is Stopped, and a real-time batch starts at most one run
\* of the apply loop.
C39_OneSubscriptionOneTicker ==
  /\ [](/\ subscriptions <= 1
        /\ intervals.sync <= 1 /\ intervals.probe <= 1
        /\ ~isStarted => (intervals.sync = 0 /\ intervals.probe = 0))
  /\ [][last'.call = "onRemoteChange" =>
          BagCardinality(tasks') <= BagCardinality(tasks) + 1]_vars


MaxCallsIndex == 3   \* calls on the tracker in SpecIndex

\* recordCreate(document) on the first tracker
TrackerCreate ==
  \E id \in TrackerIds :
    LET tr == recordCreate(Tracker, createDocument("x", id))
    IN  /\ Called
        /\ Len(changeQueue) < MaxPending
        /\ other.sameArray => Len(other.changeQueue) < MaxPending
        /\ SetTracker(tr)
        /\ other' = IF other.sameArray
                      THEN [other EXCEPT !.changeQueue = @ \o Pushed(changeQueue, tr.changeQueue)]
                      ELSE other
        /\ last' = [Return("recordCreate", <<>>) EXCEPT !.result = [which |-> "first"]]
        /\ UNCHANGED trackerRest

\* recordDelete(id, version) on the first tracker
TrackerDelete ==
  \E id \in TrackerIds, timestamp \in Clock :
    LET tr == recordDelete(Tracker, id, createVersion(id, timestamp))
    IN  /\ Called
        /\ Len(changeQueue) < MaxPending
        /\ other.sameArray => Len(other.changeQueue) < MaxPending
        /\ SetTracker(tr)
        /\ other' = IF other.sameArray
                      THEN [other EXCEPT !.changeQueue = @ \o Pushed(changeQueue, tr.changeQueue)]
                      ELSE other
        /\ last' = [Return("recordDelete", <<>>) EXCEPT !.result = [which |-> "first"]]
        /\ UNCHANGED trackerRest

\* this.changes.clear(); this.changeQueue = []
clearAllChanges(tr) == [changes |-> <<>>, changeQueue |-> <<>>]

\* clearAllChanges() on the first tracker: the queue is a new array
TrackerClearAll ==
  /\ Called
  /\ SetTracker(clearAllChanges(Tracker))
  /\ other' = [other EXCEPT !.sameArray = FALSE]
  /\ last' = [Return("clearAllChanges", <<>>) EXCEPT
                !.result = [removed |-> Len(changeQueue)]]
  /\ UNCHANGED trackerRest

\* A constructed engine; the application records, merges and clears on its
\* tracker while the clock stands still, advances or is set back.
InitIndex ==
  /\ Fresh
  /\ config = Plain
  /\ isConnected = FALSE
  /\ calls = MaxCallsIndex

NextIndex ==
  \/ ClockChange
  \/ TrackerCreate
  \/ TrackerRecord
  \/ TrackerDelete
  \/ TrackerMerge
  \/ TrackerClear
  \/ TrackerClearAll

SpecIndex == InitIndex /\ [][NextIndex]_vars

\* the records of id in the queue, in their order
RecordsOf(queue, id) ==
  LET ofId(change) == change.id = id
  IN  SelectSeq(queue, ofId)

\* C40: after any sequence of recordCreate, recordUpdate, recordDelete,
\* mergeChanges, clearChangesBefore and clearAllChanges, getLatestChange(id)
\* is defined exactly when the queue holds a record of id, and then it is
\* the last record of id in the queue.
C40_IndexMatchesQueue ==
  \A id \in TrackerIds :
    LET records == RecordsOf(changeQueue, id)
    IN  IF records = <<>>
          THEN getLatestChange(Tracker, id) = NoChange
          ELSE getLatestChange(Tracker, id) = records[Len(records)]

====
